---- MODULE Spec2Model ----
(***************************************************************************)
(* A model of the authio decision engine (authenticate v3.0.0, the         *)
(* verification cache, the authorization cache, the Credential Store, the  *)
(* Token Engine's validate and the Route Matcher).                         *)
(*                                                                         *)
(* Conventions.  A JavaScript null/undefined is Null (the empty tuple) and *)
(* a present value x is Some(x) = <<x>>.  Text that the code splits or     *)
(* concatenates (the decoded credential header, a host+path, a route       *)
(* pattern) is a sequence of atoms; ":" and "*" are atoms of their own.    *)
(* Time is Date.now() in milliseconds; it advances in half-second ticks.   *)
(* A request runs from one await to the next as one step: the code between *)
(* two suspension points (kv.get, importKey, crypto verify) is synchronous.*)
(***************************************************************************)
EXTENDS Integers, Sequences, FiniteSets, TLC

VARIABLES
    workload,         \* which requests may arrive in this run (fixed after Init)
    now,              \* Date.now(), in ms
    config,           \* the AuthConfig the engine was given (fixed after Init)
    verifiedJwtCache, \* auth.mjs:161, insertion-ordered Map token -> {payload, expires}
    routeAuthCache,   \* auth.mjs:162, insertion-ordered Map "user:host+path" -> {isAuthorized, matchedRoute}
    userCache,        \* CredentialStore.userCache, username -> {user, expires}
    cryptoKey,        \* JWT._cryptoKey, the secret the cached key was imported from
    pc,               \* per request slot: idle, kvGet, importKey, verify, done
    req,              \* per slot: the request being processed
    res,              \* per slot: authResult
    authorizedRoutes, \* per slot: the local authorizedRoutes
    calls,            \* per slot: the log of what this request has executed so far
    probe             \* the last direct call of a unit (token engine, matcher, store) and its result

vars == <<workload, now, config, verifiedJwtCache, routeAuthCache, userCache, cryptoKey,
          pc, req, res, authorizedRoutes, calls, probe>>

-----------------------------------------------------------------------------
(* Null and option values *)

Null == <<>>
Some(x) == <<x>>

Min(a, b) == IF a < b THEN a ELSE b

-----------------------------------------------------------------------------
(* Bounds of the model *)

MaxTicks == 2

\* The longest pattern list given to the Route Matcher when it is called directly.
MaxRoutes == 3

Procs == {1, 2}

-----------------------------------------------------------------------------
(* Fixed texts of the program *)

ErrHeader == <<"Malformed or invalid header credentials.">>
ErrToken == <<"Invalid or expired token.">>
ErrInternal == <<"Internal authentication service error.">>
ErrNotAuthorized(pathname) == <<"User not authorized for path: ", pathname>>

DefaultSecret == "default-secret-please-change"

MsPerSecond == 1000

-----------------------------------------------------------------------------
(* Inputs: route patterns, request targets, users, tokens, headers *)

AdminStar == <<"example.com", "admin", "*">>
AllStar == <<"example.com", "*">>
BadPattern == <<"example.com", "(">>

UrlAdmin == [hostname |-> "example.com", pathname |-> <<"admin", "x">>]
UrlPublic == [hostname |-> "example.com", pathname |-> <<"public">>]
Urls == {UrlAdmin, UrlPublic}

\* config.loginApiPath, config.logoutApiPath and config.loginUrlPath by default
LoginApiPath == <<"api", "auth", "login">>
LogoutApiPath == <<"api", "auth", "logout">>
LoginUrlPath == <<"login">>

UrlLoginApi == [hostname |-> "example.com", pathname |-> LoginApiPath]
UrlLogoutApi == [hostname |-> "example.com", pathname |-> LogoutApiPath]
UrlLoginPage == [hostname |-> "example.com", pathname |-> LoginUrlPath]

ServiceUrls == {UrlAdmin, UrlPublic, UrlLoginApi, UrlLogoutApi, UrlLoginPage}

Alice == <<"alice">>
Bob == <<"bob">>
Carol == <<"carol">>
Eve == <<"eve">>
Mallory == <<"mallory">>

\* The external KV namespace: key "user:"+username -> the parsed user record.
KvStore(username) ==
    IF username = Alice
    THEN Some([username |-> Alice, password |-> <<"p", ":", "q">>, routes |-> <<AdminStar, BadPattern>>])
    ELSE Null

Secret == "a-unique-random-string-of-32-chars"
OtherSecret == "another-secret-of-at-least-32-chars"

Payload(sub, routes, exp) ==
    [iss |-> Null, aud |-> Null, sub |-> sub, routes |-> routes, nbf |-> 0, exp |-> exp]

\* A routes claim that is present but is no array.
NotAnArray == <<"routes", "not-an-array">>

\* crypto.subtle.sign("HMAC", key, data) as a symbolic value: equal MACs come from
\* equal keys and equal data; flipped marks a signature with one bit changed.
Hmac(keySecret, data) == [key |-> keySecret, data |-> data, flipped |-> FALSE]

\* A token of `parts` dot-separated segments; payload is its encoded second
\* segment, sig its third, here the MAC under signedWith.
Token(parts, signedWith, payload) ==
    [parts |-> parts, payload |-> payload, sig |-> Hmac(signedWith, payload)]

TokA1 == Token(3, Secret, Payload(Alice, Some(<<AdminStar>>), 1))
TokA2 == Token(3, Secret, Payload(Alice, Some(<<AllStar, AdminStar>>), 9))
TokB == Token(3, Secret, Payload(Bob, Some(<<>>), 9))
TokC == Token(3, Secret, Payload(Carol, Some(<<BadPattern>>), 9))
TokForged == Token(3, OtherSecret, Payload(Alice, Some(<<AllStar>>), 9))
\* a token whose exp lapses together with the cache entry made at time 0
TokShort == Token(3, Secret, Payload(Alice, Some(<<AllStar>>), 0))
\* the same short life, with a route pattern that does not compile
TokShortBad == Token(3, Secret, Payload(Carol, Some(<<BadPattern>>), 0))

ValidTokens == {TokA1, TokA2, TokB, TokC}
Tokens == ValidTokens \cup {TokForged}

Header(b64ok, text) == [b64ok |-> b64ok, text |-> text]

HdrGood == Header(TRUE, <<"alice", ":", "p", ":", "q">>)
HdrWrong == Header(TRUE, <<"alice", ":", "p">>)
HdrUnknown == Header(TRUE, <<"eve", ":", "p">>)
HdrNoColon == Header(TRUE, <<"alice", "p">>)
HdrNotB64 == Header(FALSE, <<>>)
Headers == {HdrGood, HdrWrong, HdrUnknown, HdrNoColon, HdrNotB64}

Config(maxCacheSize, cacheEvictionBatchSize) ==
    [jwtSecret |-> Secret, cacheTtlMs |-> 1000, userCacheTtlMs |-> 60000,
     maxCacheSize |-> maxCacheSize, cacheEvictionBatchSize |-> cacheEvictionBatchSize]

\* The workloads: the requests that may arrive, and the configuration they meet.
\*   mixed    : every header with a short-lived, a faulty and a forged token
\*   eviction : four distinct valid tokens against maxCacheSize = 3, batch = 1
\*   routes   : two users on two targets against maxCacheSize = 2, batch = 1
\*   overlap  : two requests in flight at once, interleaved at their awaits
\*   lapse    : tokens that expire before their cache entries lapse
\*   stampede : two header requests in flight at once against a short user-cache TTL
\*   attribution : a header of one user and a token of another, two requests in flight
\*   twins    : the same token in two requests in flight at once
\* The harnesses below bring workloads of their own ("service", "login", ...).
Workloads == {"mixed", "eviction", "routes", "overlap", "lapse", "stampede",
              "attribution", "twins"}

\* The request slots in use: how many requests may be in flight at once.
SlotsOf(w) ==
    IF w \in {"overlap", "stampede", "attribution", "twins"} THEN Procs ELSE {1}

TokensOf(w) ==
    IF w = "mixed" THEN {TokA1, TokC, TokForged}
    ELSE IF w = "eviction" THEN ValidTokens
    ELSE IF w = "routes" THEN {TokA2, TokB}
    ELSE IF w = "lapse" THEN {TokShort, TokShortBad}
    ELSE IF w = "stampede" THEN {}
    ELSE IF w = "attribution" THEN {TokB}
    ELSE IF w = "twins" THEN {TokA2, TokC}
    ELSE IF w = "loose" THEN {TokA2, TokB}
    ELSE IF w = "service" THEN {TokA1}
    ELSE {TokA1}

HeadersOf(w) ==
    IF w = "mixed" THEN Headers
    ELSE IF w = "eviction" THEN {HdrWrong}
    ELSE IF w \in {"routes", "lapse", "twins"} THEN {}
    ELSE IF w = "stampede" THEN {HdrGood, HdrUnknown}
    ELSE IF w \in {"attribution", "loose"} THEN {HdrGood}
    ELSE IF w = "service" THEN {HdrGood}
    ELSE {HdrWrong}

UrlsOf(w) ==
    IF w \in {"eviction", "overlap", "lapse", "twins"} THEN {UrlPublic}
    ELSE IF w \in {"stampede", "attribution", "loose"} THEN {UrlAdmin}
    ELSE IF w = "service" THEN ServiceUrls
    ELSE Urls

ConfigOf(w) ==
    IF w = "mixed" THEN Config(1, 2)
    ELSE IF w = "eviction" THEN Config(3, 1)
    ELSE IF w \in {"routes", "lapse", "twins"} THEN Config(2, 1)
    ELSE IF w \in {"credential-store", "stampede"}
         THEN [Config(1, 1) EXCEPT !.userCacheTtlMs = 500]
    ELSE Config(1, 1)

Requests(w) ==
    [token : {Null} \cup {Some(t) : t \in TokensOf(w)},
     header : {Null} \cup {Some(h) : h \in HeadersOf(w)},
     url : UrlsOf(w)]

-----------------------------------------------------------------------------
(* Insertion-ordered Map: a sequence of [key, val] in insertion order *)

MapHas(cache, k) == \E i \in 1..Len(cache) : cache[i].key = k

MapGet(cache, k) == cache[CHOOSE i \in 1..Len(cache) : cache[i].key = k].val

\* A set that always adds an entry, also for a key the cache already holds
MapSetAppends(cache, k, v) == Append(cache, [key |-> k, val |-> v])

\* Map.prototype.set: an existing key keeps its position, a new key goes last.
MapSet(cache, k, v) ==
    IF MapHas(cache, k)
    THEN [i \in 1..Len(cache) |->
            IF cache[i].key = k THEN [key |-> k, val |-> v] ELSE cache[i]]
    ELSE Append(cache, [key |-> k, val |-> v])

MapKeys(cache) == {cache[i].key : i \in 1..Len(cache)}

\* An eviction that deletes the newest entries instead of the oldest
evictNewestEntries(cache, batchSize) ==
    LET n == IF batchSize < 0 THEN 0 ELSE Min(batchSize, Len(cache))
    IN  SubSeq(cache, 1, Len(cache) - n)

\* auth.mjs evictOldestEntries: delete keys[0 .. min(batchSize, size) - 1].
evictOldestEntries(cache, batchSize) ==
    LET n == IF batchSize < 0 THEN 0 ELSE Min(batchSize, Len(cache))
    IN  SubSeq(cache, n + 1, Len(cache))

\* The insert with the capacity test written > instead of >= (auth.mjs:285, 306)
InsertWithLateEviction(cache, k, v, cfg) ==
    LET room == IF Len(cache) > cfg.maxCacheSize
                THEN evictOldestEntries(cache, cfg.cacheEvictionBatchSize)
                ELSE cache
    IN  MapSet(room, k, v)

\* The high-water-mark insert used for both caches.
InsertWithEviction(cache, k, v, cfg) ==
    LET room == IF Len(cache) >= cfg.maxCacheSize
                THEN evictOldestEntries(cache, cfg.cacheEvictionBatchSize)
                ELSE cache
    IN  MapSet(room, k, v)

-----------------------------------------------------------------------------
(* Route Matcher *)

\* getCompiledRoute: the pattern compiler rejects (throws on) a malformed pattern.
CompileThrows(routePattern) == \E i \in 1..Len(routePattern) : routePattern[i] = "("

\* regex.test(urlString) of the compiled pattern: literal atoms, "*" = (.*).
RECURSIVE RegexTest(_, _)
RegexTest(routePattern, urlString) ==
    IF routePattern = <<>> THEN urlString = <<>>
    ELSE IF Head(routePattern) = "*"
         THEN \E k \in 0..Len(urlString) :
                RegexTest(Tail(routePattern), SubSeq(urlString, k + 1, Len(urlString)))
         ELSE /\ urlString # <<>>
              /\ Head(urlString) = Head(routePattern)
              /\ RegexTest(Tail(routePattern), Tail(urlString))

UrlString(url) == <<url.hostname>> \o url.pathname

\* A loop that tries the patterns from the last to the first
RECURSIVE MatchLoopBackwards(_, _)
MatchLoopBackwards(urlString, routes) ==
    IF routes = <<>>
    THEN [threw |-> FALSE, isAuthorized |-> FALSE, matchedRoute |-> Null]
    ELSE LET last == routes[Len(routes)]
         IN  IF CompileThrows(last)
             THEN [threw |-> TRUE, isAuthorized |-> FALSE, matchedRoute |-> Null]
             ELSE IF RegexTest(last, urlString)
                  THEN [threw |-> FALSE, isAuthorized |-> TRUE, matchedRoute |-> Some(last)]
                  ELSE MatchLoopBackwards(urlString, SubSeq(routes, 1, Len(routes) - 1))

\* matchRoute: first matching pattern in array order; threw = an exception escaped.
RECURSIVE MatchLoop(_, _)
MatchLoop(urlString, routes) ==
    IF routes = <<>>
    THEN [threw |-> FALSE, isAuthorized |-> FALSE, matchedRoute |-> Null]
    ELSE IF CompileThrows(Head(routes))
         THEN [threw |-> TRUE, isAuthorized |-> FALSE, matchedRoute |-> Null]
         ELSE IF RegexTest(Head(routes), urlString)
              THEN [threw |-> FALSE, isAuthorized |-> TRUE, matchedRoute |-> Some(Head(routes))]
              ELSE MatchLoop(urlString, Tail(routes))

matchRoute(url, routes) == MatchLoop(UrlString(url), routes)

-----------------------------------------------------------------------------
(* Token Engine: the checks of JWT.validate after the signature check *)

NowSeconds(t) == t \div MsPerSecond

\* Characters outside ASCII: one inside Latin-1 (a single byte for btoa), one
\* above U+00FF, and the character TextDecoder puts for bytes that are not UTF-8.
Latin1Char == "U+00E9"
WideChar == "U+4E2D"
ReplacementChar == "U+FFFD"

\* btoa(str) throws on a character above U+00FF (jwt.mjs:111)
BtoaThrows(text) == \E i \in 1..Len(text) : text[i] = WideChar

\* new TextDecoder().decode(base64UrlDecode(...)): btoa wrote each Latin-1
\* character as one byte, and a lone byte 0xE9 is not valid UTF-8 (jwt.mjs:95)
Utf8Decode(bytes) ==
    [i \in 1..Len(bytes) |-> IF bytes[i] = Latin1Char THEN ReplacementChar ELSE bytes[i]]

\* Array.isArray(payload.routes)
IsArray(routes) == routes # Null /\ routes # NotAnArray

\* base64UrlEncode(JSON.stringify(payload)) throws
EncodeThrows(payload) ==
    \/ BtoaThrows(payload.sub)
    \/ payload.iss # Null /\ BtoaThrows(payload.iss[1])
    \/ payload.aud # Null /\ BtoaThrows(payload.aud[1])
    \/ IsArray(payload.routes)
          /\ \E i \in 1..Len(payload.routes[1]) : BtoaThrows(payload.routes[1][i])

\* JSON.parse(new TextDecoder().decode(base64UrlDecode(encodedPayload)))
DecodePayload(encoded) ==
    [encoded EXCEPT
        !.sub = Utf8Decode(@),
        !.iss = IF @ = Null THEN Null ELSE Some(Utf8Decode(@[1])),
        !.aud = IF @ = Null THEN Null ELSE Some(Utf8Decode(@[1])),
        !.routes = IF IsArray(@)
                   THEN Some([i \in 1..Len(@[1]) |-> Utf8Decode(@[1][i])])
                   ELSE @]

\* ValidateClaims without the Array.isArray(payload.routes) check
ValidateClaimsAnyRoutes(payload, t, issuer, audience) ==
    IF payload.exp < NowSeconds(t) THEN Null
    ELSE IF payload.nbf > NowSeconds(t) THEN Null
    ELSE IF payload.iss # issuer THEN Null
    ELSE IF payload.aud # audience THEN Null
    ELSE Some(payload)

\* jwt.mjs:95-103; issuer and audience are the values validate was called with.
ValidateClaims(payload, t, issuer, audience) ==
    IF payload.exp < NowSeconds(t) THEN Null
    ELSE IF payload.nbf > NowSeconds(t) THEN Null
    ELSE IF payload.iss # issuer THEN Null
    ELSE IF payload.aud # audience THEN Null
    ELSE IF ~IsArray(payload.routes) THEN Null
    ELSE Some(payload)

\* getCryptoKey's guard (jwt.mjs:29)
SecretRejected(jwtSecret) == jwtSecret = "" \/ jwtSecret = DefaultSecret

\* crypto.subtle.verify("HMAC", key, signature, data)
\* A verify that accepts every signature
SignatureUnchecked(token, keySecret) == TRUE

SignatureValid(token, keySecret) == token.sig = Hmac(keySecret, token.payload)

\* JWT.getCryptoKey (jwt.mjs:28-41): throws on a rejected secret, else the cached
\* key if there is one, else a key imported from this secret and cached.
getCryptoKey(key, jwtSecret) ==
    IF SecretRejected(jwtSecret) THEN [threw |-> TRUE, key |-> key]
    ELSE [threw |-> FALSE, key |-> IF key # Null THEN key ELSE Some(jwtSecret)]

\* {...left, ...right}: the object spread, where the later source wins
Spread(left, right) ==
    [f \in DOMAIN left \cup DOMAIN right |-> IF f \in DOMAIN right THEN right[f] ELSE left[f]]

\* create with ...privateClaims spread before ...publicClaims
createPublicLast(a, t, key) ==
    LET k == getCryptoKey(key, a.jwtSecret)
        base == [iss |-> a.issuer, aud |-> a.audience, sub |-> a.username,
                 routes |-> Some(a.routes), nbf |-> NowSeconds(t),
                 exp |-> NowSeconds(t) + a.sessionTimeout]
        payload == Spread(Spread(base, a.privateClaims), a.publicClaims)
    IN  IF k.threw THEN [threw |-> TRUE, token |-> Null, key |-> key]
        ELSE IF EncodeThrows(payload) THEN [threw |-> TRUE, token |-> Null, key |-> k.key]
        ELSE [threw |-> FALSE, key |-> k.key,
              token |-> Some([parts |-> 3, payload |-> payload,
                              sig |-> Hmac(k.key[1], payload)])]

\* JWT.create (jwt.mjs:43-75) at time t with JWT._cryptoKey = key.  The claims
\* given as publicClaims and then as privateClaims are spread last (jwt.mjs:64-65)
\* and replace the fields they name.
create(a, t, key) ==
    LET k == getCryptoKey(key, a.jwtSecret)
        base == [iss |-> a.issuer, aud |-> a.audience, sub |-> a.username,
                 routes |-> Some(a.routes), nbf |-> NowSeconds(t),
                 exp |-> NowSeconds(t) + a.sessionTimeout]
        payload == Spread(Spread(base, a.publicClaims), a.privateClaims)
    IN  IF k.threw THEN [threw |-> TRUE, token |-> Null, key |-> key]
        ELSE IF EncodeThrows(payload) THEN [threw |-> TRUE, token |-> Null, key |-> k.key]
        ELSE [threw |-> FALSE, key |-> k.key,
              token |-> Some([parts |-> 3, payload |-> payload,
                              sig |-> Hmac(k.key[1], payload)])]

\* JWT.validate (jwt.mjs:77-107) of the cookie's token at time t with
\* JWT._cryptoKey = key: the payload or null, and the key left in the cache.
validate(token, a, t, key) ==
    IF token = Null THEN [payload |-> Null, key |-> key]
    ELSE IF token[1].parts < 3 THEN [payload |-> Null, key |-> key]
    ELSE LET k == getCryptoKey(key, a.jwtSecret)
         IN  IF k.threw THEN [payload |-> Null, key |-> key]
             ELSE IF ~SignatureValid(token[1], k.key[1]) THEN [payload |-> Null, key |-> k.key]
             ELSE [payload |-> ValidateClaims(DecodePayload(token[1].payload), t,
                                              a.issuer, a.audience),
                   key |-> k.key]

-----------------------------------------------------------------------------
(* Credential Store: CredentialStore.getUser (creds.mjs:49-87) *)

\* kv.get resolves to a text that JSON.parse rejects.
KvUnparsable(username) == username = Mallory

\* A cache check that never looks at expires
UserCachedForever(users, username, t) == username \in DOMAIN users

\* creds.mjs:53-54: cachedEntry && Date.now() < cachedEntry.expires
UserCached(users, username, t) ==
    username \in DOMAIN users /\ t < users[username].expires

\* creds.mjs:66-69 and 76-79: this.userCache.set(username, {user, expires})
UserCachePut(users, username, user, t, ttl) ==
    [u \in DOMAIN users \cup {username} |->
        IF u = username THEN [user |-> user, expires |-> t + ttl] ELSE users[u]]

\* A getUser that caches a failed fetch as "not found"
AfterFetchCachingFailures(users, username, rejected, t, ttl) ==
    IF rejected \/ KvUnparsable(username)
    THEN [users |-> UserCachePut(users, username, Null, t, ttl), user |-> Null, failed |-> TRUE]
    ELSE [users |-> UserCachePut(users, username, KvStore(username), t, ttl),
          user |-> KvStore(username), failed |-> FALSE]

\* A getUser that deletes the username's entry when its own fetch fails
AfterFetchDropsOnFailure(users, username, rejected, t, ttl) ==
    IF rejected \/ KvUnparsable(username)
    THEN [users |-> [u \in DOMAIN users \ {username} |-> users[u]], user |-> Null,
          failed |-> TRUE]
    ELSE [users |-> UserCachePut(users, username, KvStore(username), t, ttl),
          user |-> KvStore(username), failed |-> FALSE]

\* creds.mjs:62-86, getUser once kv.get has settled: the cache it leaves, the
\* user it returns, and whether the fetch or the parse failed.
AfterFetch(users, username, rejected, t, ttl) ==
    IF rejected \/ KvUnparsable(username)
    THEN [users |-> users, user |-> Null, failed |-> TRUE]
    ELSE [users |-> UserCachePut(users, username, KvStore(username), t, ttl),
          user |-> KvStore(username), failed |-> FALSE]

-----------------------------------------------------------------------------
(* Decoding of the programmatic credential header *)

\* decoded.lastIndexOf(':') in place of indexOf
IndexOfLastColon(text) ==
    IF \E i \in 1..Len(text) : text[i] = ":"
    THEN CHOOSE i \in 1..Len(text) : text[i] = ":" /\ \A j \in (i + 1)..Len(text) : text[j] # ":"
    ELSE 0

\* decoded.indexOf(':'), 1-based; 0 when there is no colon
IndexOfColon(text) ==
    IF \E i \in 1..Len(text) : text[i] = ":"
    THEN CHOOSE i \in 1..Len(text) : text[i] = ":" /\ \A j \in 1..(i - 1) : text[j] # ":"
    ELSE 0

HeaderUsername(text) == SubSeq(text, 1, IndexOfColon(text) - 1)
HeaderPassword(text) == SubSeq(text, IndexOfColon(text) + 1, Len(text))

\* atob throws, or the decoded text has no colon
HeaderMalformed(h) == ~h.b64ok \/ IndexOfColon(h.text) = 0


-----------------------------------------------------------------------------
(* authenticate (auth.mjs:204-331).  A machine state m gathers what one     *)
(* synchronous stretch of a request reads and writes:                       *)
(*   res, routes, calls : the request's authResult, authorizedRoutes, calls *)
(*   jwt, route, users  : verifiedJwtCache, routeAuthCache, userCache       *)
(*   pc                 : where the request suspends next                   *)

InitResult(t) ==
    [isAuthed |-> FALSE, isAuthorized |-> FALSE, method |-> Null, username |-> Null,
     payload |-> Null, matchedRoute |-> Null, error |-> Null, timestamp |-> t]

RouteCacheKey(username, url) == <<username, UrlString(url)>>

\* Authorize without the outer try/catch: the exception reaches the caller
AuthorizeUncaught(m, r, cfg) ==
    IF m.res.isAuthed
    THEN LET k == RouteCacheKey(m.res.username[1], r.url)
         IN  IF MapHas(m.route, k)
             THEN LET e == MapGet(m.route, k)
                      e1 == [m.res EXCEPT !.isAuthorized = e.isAuthorized,
                                          !.matchedRoute = e.matchedRoute]
                  IN  [m EXCEPT !.pc = "done",
                                !.res = IF e.isAuthorized THEN e1
                                        ELSE [e1 EXCEPT !.error = ErrNotAuthorized(r.url.pathname)]]
             ELSE LET mr == matchRoute(r.url, m.routes)
                      r1 == [m.res EXCEPT !.isAuthorized = mr.isAuthorized,
                                          !.matchedRoute = mr.matchedRoute]
                  IN  IF mr.threw
                      THEN [m EXCEPT !.pc = "threw",
                                     !.calls = @ \cup {"fault"}]
                      ELSE [m EXCEPT !.pc = "done",
                                     !.calls = IF Len(m.route) >= cfg.maxCacheSize
                                               THEN @ \cup {"evict-route"} ELSE @,
                                     !.route = InsertWithEviction(m.route, k,
                                                 [isAuthorized |-> mr.isAuthorized,
                                                  matchedRoute |-> mr.matchedRoute], cfg),
                                     !.res = IF mr.isAuthorized THEN r1
                                             ELSE [r1 EXCEPT !.error = ErrNotAuthorized(r.url.pathname)]]
    ELSE [m EXCEPT !.pc = "done",
                   !.res = [m.res EXCEPT !.method = IF m.res.error # Null THEN Some("error") ELSE Null]]

\* Authorize without the else branch of auth.mjs:314-316
AuthorizeLeavesMethod(m, r, cfg) ==
    IF m.res.isAuthed
    THEN LET k == RouteCacheKey(m.res.username[1], r.url)
         IN  IF MapHas(m.route, k)
             THEN LET e == MapGet(m.route, k)
                      e1 == [m.res EXCEPT !.isAuthorized = e.isAuthorized,
                                          !.matchedRoute = e.matchedRoute]
                  IN  [m EXCEPT !.pc = "done",
                                !.res = IF e.isAuthorized THEN e1
                                        ELSE [e1 EXCEPT !.error = ErrNotAuthorized(r.url.pathname)]]
             ELSE LET mr == matchRoute(r.url, m.routes)
                      r1 == [m.res EXCEPT !.isAuthorized = mr.isAuthorized,
                                          !.matchedRoute = mr.matchedRoute]
                  IN  IF mr.threw
                      THEN [m EXCEPT !.pc = "done",
                                     !.calls = @ \cup {"fault"},
                                     !.res = [m.res EXCEPT !.method = Some("error"),
                                                           !.error = ErrInternal]]
                      ELSE [m EXCEPT !.pc = "done",
                                     !.calls = IF Len(m.route) >= cfg.maxCacheSize
                                               THEN @ \cup {"evict-route"} ELSE @,
                                     !.route = InsertWithEviction(m.route, k,
                                                 [isAuthorized |-> mr.isAuthorized,
                                                  matchedRoute |-> mr.matchedRoute], cfg),
                                     !.res = IF mr.isAuthorized THEN r1
                                             ELSE [r1 EXCEPT !.error = ErrNotAuthorized(r.url.pathname)]]
    ELSE [m EXCEPT !.pc = "done"]

\* Authorize entered for any request that names a user, authenticated or not
AuthorizeUnguarded(m, r, cfg) ==
    IF m.res.username # Null
    THEN LET k == RouteCacheKey(m.res.username[1], r.url)
         IN  IF MapHas(m.route, k)
             THEN LET e == MapGet(m.route, k)
                      e1 == [m.res EXCEPT !.isAuthorized = e.isAuthorized,
                                          !.matchedRoute = e.matchedRoute]
                  IN  [m EXCEPT !.pc = "done",
                                !.res = IF e.isAuthorized THEN e1
                                        ELSE [e1 EXCEPT !.error = ErrNotAuthorized(r.url.pathname)]]
             ELSE LET mr == matchRoute(r.url, m.routes)
                      r1 == [m.res EXCEPT !.isAuthorized = mr.isAuthorized,
                                          !.matchedRoute = mr.matchedRoute]
                  IN  IF mr.threw
                      THEN [m EXCEPT !.pc = "done",
                                     !.calls = @ \cup {"fault"},
                                     !.res = [m.res EXCEPT !.method = Some("error"),
                                                           !.error = ErrInternal]]
                      ELSE [m EXCEPT !.pc = "done",
                                     !.calls = IF Len(m.route) >= cfg.maxCacheSize
                                               THEN @ \cup {"evict-route"} ELSE @,
                                     !.route = InsertWithEviction(m.route, k,
                                                 [isAuthorized |-> mr.isAuthorized,
                                                  matchedRoute |-> mr.matchedRoute], cfg),
                                     !.res = IF mr.isAuthorized THEN r1
                                             ELSE [r1 EXCEPT !.error = ErrNotAuthorized(r.url.pathname)]]
    ELSE [m EXCEPT !.pc = "done",
                   !.res = [m.res EXCEPT !.method = IF m.res.error # Null THEN Some("error") ELSE Null]]

\* Authorize recording a refusal as an authentication error (method 'error')
AuthorizeDemotes(m, r, cfg) ==
    IF m.res.isAuthed
    THEN LET k == RouteCacheKey(m.res.username[1], r.url)
         IN  IF MapHas(m.route, k)
             THEN LET e == MapGet(m.route, k)
                      e1 == [m.res EXCEPT !.isAuthorized = e.isAuthorized,
                                          !.matchedRoute = e.matchedRoute]
                  IN  [m EXCEPT !.pc = "done",
                                !.res = IF e.isAuthorized THEN e1
                                        ELSE [e1 EXCEPT !.method = Some("error"),
                                                        !.error = ErrNotAuthorized(r.url.pathname)]]
             ELSE LET mr == matchRoute(r.url, m.routes)
                      r1 == [m.res EXCEPT !.isAuthorized = mr.isAuthorized,
                                          !.matchedRoute = mr.matchedRoute]
                  IN  IF mr.threw
                      THEN [m EXCEPT !.pc = "done",
                                     !.calls = @ \cup {"fault"},
                                     !.res = [m.res EXCEPT !.method = Some("error"),
                                                           !.error = ErrInternal]]
                      ELSE [m EXCEPT !.pc = "done",
                                     !.calls = IF Len(m.route) >= cfg.maxCacheSize
                                               THEN @ \cup {"evict-route"} ELSE @,
                                     !.route = InsertWithEviction(m.route, k,
                                                 [isAuthorized |-> mr.isAuthorized,
                                                  matchedRoute |-> mr.matchedRoute], cfg),
                                     !.res = IF mr.isAuthorized THEN r1
                                             ELSE [r1 EXCEPT !.method = Some("error"),
                                                             !.error = ErrNotAuthorized(r.url.pathname)]]
    ELSE [m EXCEPT !.pc = "done",
                   !.res = [m.res EXCEPT !.method = IF m.res.error # Null THEN Some("error") ELSE Null]]

\* auth.mjs:294-322, the authorization step and the outer catch around it
Authorize(m, r, cfg) ==
    IF m.res.isAuthed
    THEN LET k == RouteCacheKey(m.res.username[1], r.url)
         IN  IF MapHas(m.route, k)
             THEN LET e == MapGet(m.route, k)
                      e1 == [m.res EXCEPT !.isAuthorized = e.isAuthorized,
                                          !.matchedRoute = e.matchedRoute]
                  IN  [m EXCEPT !.pc = "done",
                                !.res = IF e.isAuthorized THEN e1
                                        ELSE [e1 EXCEPT !.error = ErrNotAuthorized(r.url.pathname)]]
             ELSE LET mr == matchRoute(r.url, m.routes)
                      r1 == [m.res EXCEPT !.isAuthorized = mr.isAuthorized,
                                          !.matchedRoute = mr.matchedRoute]
                  IN  IF mr.threw
                      THEN [m EXCEPT !.pc = "done",
                                     !.calls = @ \cup {"fault"},
                                     !.res = [m.res EXCEPT !.method = Some("error"),
                                                           !.error = ErrInternal]]
                      ELSE [m EXCEPT !.pc = "done",
                                     !.calls = IF Len(m.route) >= cfg.maxCacheSize
                                               THEN @ \cup {"evict-route"} ELSE @,
                                     !.route = InsertWithEviction(m.route, k,
                                                 [isAuthorized |-> mr.isAuthorized,
                                                  matchedRoute |-> mr.matchedRoute], cfg),
                                     !.res = IF mr.isAuthorized THEN r1
                                             ELSE [r1 EXCEPT !.error = ErrNotAuthorized(r.url.pathname)]]
    ELSE [m EXCEPT !.pc = "done",
                   !.res = [m.res EXCEPT !.method = IF m.res.error # Null THEN Some("error") ELSE Null]]

\* AfterValidate without authResult.error = null (auth.mjs:283)
AfterValidateKeepsError(m, r, payload, t, cfg) ==
    IF payload # Null
    THEN Authorize([m EXCEPT !.res = [m.res EXCEPT !.isAuthed = TRUE,
                                                   !.method = Some("jwt"),
                                                   !.username = Some(payload[1].sub),
                                                   !.payload = payload],
                             !.routes = payload[1].routes[1],
                             !.jwt = InsertWithEviction(m.jwt, r.token[1],
                                        [payload |-> payload[1], expires |-> t + cfg.cacheTtlMs], cfg)],
                   r, cfg)
    ELSE Authorize([m EXCEPT !.res = IF m.res.error = Null
                                     THEN [m.res EXCEPT !.error = ErrToken]
                                     ELSE m.res],
                   r, cfg)

\* AfterValidate with the token error written over a recorded header error
AfterValidateOverwrites(m, r, payload, t, cfg) ==
    IF payload # Null
    THEN Authorize([m EXCEPT !.res = [m.res EXCEPT !.isAuthed = TRUE,
                                                   !.method = Some("jwt"),
                                                   !.username = Some(payload[1].sub),
                                                   !.payload = payload,
                                                   !.error = Null],
                             !.routes = payload[1].routes[1],
                             !.calls = IF Len(m.jwt) >= cfg.maxCacheSize
                                       THEN @ \cup {"evict-jwt"} ELSE @,
                             !.jwt = InsertWithEviction(m.jwt, r.token[1],
                                        [payload |-> payload[1], expires |-> t + cfg.cacheTtlMs], cfg)],
                   r, cfg)
    ELSE Authorize([m EXCEPT !.res = [m.res EXCEPT !.error = ErrToken]], r, cfg)

\* auth.mjs:277-291, what authenticate does with validate's answer; then authorization
AfterValidate(m, r, payload, t, cfg) ==
    IF payload # Null
    THEN Authorize([m EXCEPT !.res = [m.res EXCEPT !.isAuthed = TRUE,
                                                   !.method = Some("jwt"),
                                                   !.username = Some(payload[1].sub),
                                                   !.payload = payload,
                                                   !.error = Null],
                             !.routes = payload[1].routes[1],
                             !.calls = IF Len(m.jwt) >= cfg.maxCacheSize
                                       THEN @ \cup {"evict-jwt"} ELSE @,
                             !.jwt = InsertWithEviction(m.jwt, r.token[1],
                                        [payload |-> payload[1], expires |-> t + cfg.cacheTtlMs], cfg)],
                   r, cfg)
    ELSE Authorize([m EXCEPT !.res = IF m.res.error = Null
                                     THEN [m.res EXCEPT !.error = ErrToken]
                                     ELSE m.res],
                   r, cfg)

\* auth.mjs:275-276 and jwt.mjs:77-88: the synchronous start of full validation
TokenStage(m, r, t, cfg, key) ==
    IF ~m.res.isAuthed /\ r.token # Null
    THEN LET m1 == [m EXCEPT !.calls = @ \cup {"validate"}]
         IN  IF r.token[1].parts < 3 \/ SecretRejected(cfg.jwtSecret)
             THEN AfterValidate(m1, r, Null, t, cfg)
             ELSE IF key # Null
                  THEN [m1 EXCEPT !.pc = "verify"]
                  ELSE [m1 EXCEPT !.pc = "importKey"]
    ELSE Authorize(m, r, cfg)

\* HeaderResolve with the caught exception's message copied into the result
HeaderResolveLeaks(m, r, user, t, cfg, key) ==
    LET text == r.header[1].text
    IN  IF user # Null /\ user[1].password = HeaderPassword(text)
        THEN TokenStage([m EXCEPT !.res = [m.res EXCEPT !.isAuthed = TRUE,
                                                        !.method = Some("header"),
                                                        !.username = Some(user[1].username)],
                                  !.routes = user[1].routes],
                        r, t, cfg, key)
        ELSE TokenStage([m EXCEPT !.calls = @ \cup {"headerThrow"},
                                  !.res = [m.res EXCEPT !.username = Some(HeaderUsername(text)),
                                                        !.error = <<"Invalid credentials provided in header">>]],
                        r, t, cfg, key)

\* HeaderResolve without authResult.username = username on rejection (auth.mjs:266)
HeaderResolveForgets(m, r, user, t, cfg, key) ==
    LET text == r.header[1].text
    IN  IF user # Null /\ user[1].password = HeaderPassword(text)
        THEN TokenStage([m EXCEPT !.res = [m.res EXCEPT !.isAuthed = TRUE,
                                                        !.method = Some("header"),
                                                        !.username = Some(user[1].username)],
                                  !.routes = user[1].routes],
                        r, t, cfg, key)
        ELSE TokenStage([m EXCEPT !.calls = @ \cup {"headerThrow"},
                                  !.res = [m.res EXCEPT !.error = ErrHeader]],
                        r, t, cfg, key)

\* auth.mjs:260-271, the comparison of the fetched user with the header's secret
HeaderResolve(m, r, user, t, cfg, key) ==
    LET text == r.header[1].text
    IN  IF user # Null /\ user[1].password = HeaderPassword(text)
        THEN TokenStage([m EXCEPT !.res = [m.res EXCEPT !.isAuthed = TRUE,
                                                        !.method = Some("header"),
                                                        !.username = Some(user[1].username)],
                                  !.routes = user[1].routes],
                        r, t, cfg, key)
        ELSE TokenStage([m EXCEPT !.calls = @ \cup {"headerThrow"},
                                  !.res = [m.res EXCEPT !.username = Some(HeaderUsername(text)),
                                                        !.error = ErrHeader]],
                        r, t, cfg, key)

\* HeaderStage without the !authResult.isAuthed guard of auth.mjs:248
HeaderStageUnguarded(m, r, t, cfg, key) ==
    IF r.header # Null
    THEN IF HeaderMalformed(r.header[1])
         THEN TokenStage([m EXCEPT !.calls = @ \cup {"headerThrow"},
                                   !.res = [m.res EXCEPT !.error = ErrHeader]], r, t, cfg, key)
         ELSE LET username == HeaderUsername(r.header[1].text)
                  m1 == [m EXCEPT !.calls = @ \cup {"getUser"}]
              IN  IF username = <<>>
                  THEN HeaderResolve(m1, r, Null, t, cfg, key)
                  ELSE IF UserCached(m.users, username, t)
                       THEN HeaderResolve(m1, r, m.users[username].user, t, cfg, key)
                       ELSE [m1 EXCEPT !.pc = "kvGet"]
    ELSE TokenStage(m, r, t, cfg, key)

\* HeaderStage asking the Credential Store before it looks for the header
HeaderStageEager(m, r, t, cfg, key) ==
    IF ~m.res.isAuthed
    THEN LET m1 == [m EXCEPT !.calls = @ \cup {"getUser"}]
         IN  IF r.header = Null
             THEN TokenStage(m1, r, t, cfg, key)
             ELSE IF HeaderMalformed(r.header[1])
                  THEN TokenStage([m EXCEPT !.calls = @ \cup {"headerThrow"},
                                            !.res = [m.res EXCEPT !.error = ErrHeader]],
                                  r, t, cfg, key)
                  ELSE LET username == HeaderUsername(r.header[1].text)
                       IN  IF username = <<>>
                           THEN HeaderResolve(m1, r, Null, t, cfg, key)
                           ELSE IF UserCached(m.users, username, t)
                                THEN HeaderResolve(m1, r, m.users[username].user, t, cfg, key)
                                ELSE [m1 EXCEPT !.pc = "kvGet"]
    ELSE TokenStage(m, r, t, cfg, key)

\* auth.mjs:246-258 and creds.mjs:49-60: the header step up to the KV fetch
HeaderStage(m, r, t, cfg, key) ==
    IF ~m.res.isAuthed /\ r.header # Null
    THEN IF HeaderMalformed(r.header[1])
         THEN TokenStage([m EXCEPT !.calls = @ \cup {"headerThrow"},
                                   !.res = [m.res EXCEPT !.error = ErrHeader]], r, t, cfg, key)
         ELSE LET username == HeaderUsername(r.header[1].text)
                  m1 == [m EXCEPT !.calls = @ \cup {"getUser"}]
              IN  IF username = <<>>
                  THEN HeaderResolve(m1, r, Null, t, cfg, key)
                  ELSE IF UserCached(m.users, username, t)
                       THEN HeaderResolve(m1, r, m.users[username].user, t, cfg, key)
                       ELSE [m1 EXCEPT !.pc = "kvGet"]
    ELSE TokenStage(m, r, t, cfg, key)

\* CacheStage that also compares the cached payload's exp with the clock
CacheStageChecksExp(m, r, t) ==
    IF /\ r.token # Null /\ MapHas(m.jwt, r.token[1])
       /\ t < MapGet(m.jwt, r.token[1]).expires
       /\ MapGet(m.jwt, r.token[1]).payload.exp >= NowSeconds(t)
    THEN LET e == MapGet(m.jwt, r.token[1])
         IN  [m EXCEPT !.calls = @ \cup {"cacheHit"},
                       !.res = [m.res EXCEPT !.isAuthed = TRUE,
                                             !.method = Some("jwt-cache"),
                                             !.username = Some(e.payload.sub),
                                             !.payload = Some(e.payload)],
                       !.routes = e.payload.routes[1]]
    ELSE m

\* CacheStage with a sliding expiry: a hit rewrites the entry's expires
CacheStageSlides(m, r, t) ==
    IF r.token # Null /\ MapHas(m.jwt, r.token[1]) /\ t < MapGet(m.jwt, r.token[1]).expires
    THEN LET e == MapGet(m.jwt, r.token[1])
         IN  [m EXCEPT !.calls = @ \cup {"cacheHit"},
                       !.jwt = MapSet(m.jwt, r.token[1], [e EXCEPT !.expires = @ + t]),
                       !.res = [m.res EXCEPT !.isAuthed = TRUE,
                                             !.method = Some("jwt-cache"),
                                             !.username = Some(e.payload.sub),
                                             !.payload = Some(e.payload)],
                       !.routes = e.payload.routes[1]]
    ELSE m

\* auth.mjs:234-244, the cache-first check
CacheStage(m, r, t) ==
    IF r.token # Null /\ MapHas(m.jwt, r.token[1]) /\ t < MapGet(m.jwt, r.token[1]).expires
    THEN LET e == MapGet(m.jwt, r.token[1])
         IN  [m EXCEPT !.calls = @ \cup {"cacheHit"},
                       !.res = [m.res EXCEPT !.isAuthed = TRUE,
                                             !.method = Some("jwt-cache"),
                                             !.username = Some(e.payload.sub),
                                             !.payload = Some(e.payload)],
                       !.routes = e.payload.routes[1]]
    ELSE m

\* the shared and request-local state as one machine state, and back
Machine(p) ==
    [res |-> res[p], routes |-> authorizedRoutes[p], calls |-> calls[p],
     jwt |-> verifiedJwtCache, route |-> routeAuthCache, users |-> userCache, pc |-> pc[p]]

Store(p, m) ==
    /\ res' = [res EXCEPT ![p] = m.res]
    /\ authorizedRoutes' = [authorizedRoutes EXCEPT ![p] = m.routes]
    /\ calls' = [calls EXCEPT ![p] = m.calls]
    /\ verifiedJwtCache' = m.jwt
    /\ routeAuthCache' = m.route
    /\ userCache' = m.users
    /\ pc' = [pc EXCEPT ![p] = m.pc]

-----------------------------------------------------------------------------
(* Actions *)

NoRequest == [token |-> Null, header |-> Null, url |-> UrlPublic]

\* No unit has been called directly.
NoProbe == [op |-> "none"]

InitOf(w) ==
    /\ workload = w
    /\ now = 0
    /\ config = ConfigOf(w)
    /\ verifiedJwtCache = <<>>
    /\ routeAuthCache = <<>>
    /\ userCache = [u \in {} |-> Null]
    /\ cryptoKey = Null
    /\ pc = [p \in Procs |-> "idle"]
    /\ req = [p \in Procs |-> NoRequest]
    /\ res = [p \in Procs |-> InitResult(0)]
    /\ authorizedRoutes = [p \in Procs |-> <<>>]
    /\ calls = [p \in Procs |-> {}]

\* A request arrives: authenticate runs up to its first suspension or to its end.
Begin(p) ==
    /\ p \in SlotsOf(workload)
    /\ pc[p] = "idle"
    /\ \E r \in Requests(workload) :
        /\ req' = [req EXCEPT ![p] = r]
        /\ LET m0 == [Machine(p) EXCEPT !.res = InitResult(now), !.routes = <<>>, !.calls = {}]
           IN  Store(p, HeaderStage(CacheStage(m0, r, now), r, now, config, cryptoKey))
    /\ UNCHANGED <<probe, workload, now, config, cryptoKey>>

\* creds.mjs:62-86: kv.get resolves or rejects, getUser returns, authenticate resumes.
KvGet(p) ==
    /\ pc[p] = "kvGet"
    /\ \E rejected \in BOOLEAN :
        LET username == HeaderUsername(req[p].header[1].text)
            f == AfterFetch(userCache, username, rejected, now, config.userCacheTtlMs)
            m0 == [Machine(p) EXCEPT !.calls = @ \cup (IF f.failed THEN {"kvGet", "kvFail"}
                                                         ELSE {"kvGet"}),
                                     !.users = f.users]
        IN  Store(p, HeaderResolve(m0, req[p], f.user, now, config, cryptoKey))
    /\ UNCHANGED <<probe, workload, now, config, cryptoKey, req>>

\* jwt.mjs:34-40: importKey resolves and the key is kept in JWT._cryptoKey.
ImportKey(p) ==
    /\ pc[p] = "importKey"
    /\ cryptoKey' = Some(config.jwtSecret)
    /\ pc' = [pc EXCEPT ![p] = "verify"]
    /\ calls' = [calls EXCEPT ![p] = @ \cup {"importKey"}]
    /\ UNCHANGED <<probe, workload, now, config, verifiedJwtCache, routeAuthCache, userCache, req, res,
                   authorizedRoutes>>

\* jwt.mjs:92-103 and auth.mjs:277-322: crypto verify resolves, validate returns,
\* authenticate inserts into the verification cache and authorizes.
Verify(p) ==
    /\ pc[p] = "verify"
    /\ LET token == req[p].token[1]
           payload == IF SignatureValid(token, cryptoKey[1])
                      THEN ValidateClaims(DecodePayload(token.payload), now, Null, Null)
                      ELSE Null
           m0 == [Machine(p) EXCEPT !.calls = @ \cup {"verify"}]
       IN  Store(p, AfterValidate(m0, req[p], payload, now, config))
    /\ UNCHANGED <<probe, workload, now, config, cryptoKey, req>>

\* auth.mjs:324-330: the enriched request is handed back; the slot is free again.
Return(p) ==
    /\ pc[p] = "done"
    /\ pc' = [pc EXCEPT ![p] = "idle"]
    /\ req' = [req EXCEPT ![p] = NoRequest]
    /\ res' = [res EXCEPT ![p] = InitResult(0)]
    /\ authorizedRoutes' = [authorizedRoutes EXCEPT ![p] = <<>>]
    /\ calls' = [calls EXCEPT ![p] = {}]
    /\ UNCHANGED <<probe, workload, now, config, verifiedJwtCache, routeAuthCache, userCache, cryptoKey>>

\* Time passes.
Tick ==
    /\ now + 500 <= MaxTicks * 500
    /\ now' = now + 500
    /\ UNCHANGED <<probe, workload, config, verifiedJwtCache, routeAuthCache, userCache, cryptoKey,
                   pc, req, res, authorizedRoutes, calls>>

Next ==
    \/ \E p \in Procs : Begin(p)
    \/ \E p \in Procs : KvGet(p)
    \/ \E p \in Procs : ImportKey(p)
    \/ \E p \in Procs : Verify(p)
    \/ \E p \in Procs : Return(p)
    \/ Tick

Init == \E w \in Workloads : InitOf(w) /\ probe = NoProbe

Spec == Init /\ [][Next]_vars


-----------------------------------------------------------------------------
(* The Token Engine called directly: JWT.create and JWT.validate on inputs   *)
(* drawn from small sets, on crafted tokens and on tokens altered in transit. *)

NoClaims == [f \in {} |-> Null]

\* Claim extensions of the caller: both name the key "role".
PublicRole == [f \in {"role"} |-> <<"user">>]
PrivateRole == [f \in {"role"} |-> <<"admin">>]

MinSecretLength == 32
ShortSecret == "a-secret-of-18-chr"

CreateInputs ==
    [username : {Alice, <<"ren", Latin1Char>>, <<WideChar>>},
     routes : {<<>>, <<AdminStar>>},
     jwtSecret : {Secret, ShortSecret, DefaultSecret, ""},
     sessionTimeout : {0, 5},
     issuer : {Null, Some(<<"issuer-a">>)},
     audience : {Null, Some(<<"audience-a">>)},
     publicClaims : {NoClaims, PublicRole},
     privateClaims : {NoClaims, PrivateRole}]

ValidateInputs ==
    [jwtSecret : {Secret, DefaultSecret},
     issuer : {Null, Some(<<"issuer-a">>)},
     audience : {Null, Some(<<"audience-a">>)}]

\* Tokens made elsewhere: signed with the right key or another one, and with a
\* claim that validate must refuse.
CraftedPayloads ==
    {[Payload(Alice, Some(<<AllStar>>), 9) EXCEPT !.exp = -1],
     [Payload(Alice, Some(<<AllStar>>), 9) EXCEPT !.nbf = 9],
     Payload(Alice, Null, 9),
     Payload(Alice, NotAnArray, 9),
     Payload(Alice, Some(<<AllStar>>), 9)}

CraftedTokens == {Token(3, k, pl) : k \in {Secret, OtherSecret}, pl \in CraftedPayloads}

\* The engine is idle with an empty key cache.  Either create is about to be
\* given `input`, or a token made elsewhere is at hand.
TokenInit ==
    /\ InitOf("token-engine")
    /\ \/ \E a \in CreateInputs :
            probe = [op |-> "none", input |-> Some(a), threw |-> FALSE, token |-> Null,
                     tamper |-> "none", args |-> Null, out |-> Null, at |-> 0]
       \/ \E tok \in CraftedTokens :
            probe = [op |-> "present", input |-> Null, threw |-> FALSE, token |-> Some(tok),
                     tamper |-> "none", args |-> Null, out |-> Null, at |-> 0]

\* JWT.create is called.
CallCreate ==
    /\ probe.input # Null
    /\ LET c == create(probe.input[1], now, cryptoKey)
       IN  /\ cryptoKey' = c.key
           /\ probe' = [probe EXCEPT !.op = "create", !.threw = c.threw, !.token = c.token,
                                     !.tamper = "none", !.args = Null, !.out = Null,
                                     !.at = now]
    /\ UNCHANGED <<workload, now, config, verifiedJwtCache, routeAuthCache, userCache,
                   pc, req, res, authorizedRoutes, calls>>

\* The token at hand is altered once: a bit of the signature flipped, the payload
\* replaced under the old signature, a segment appended, or the last one cut off.
Tamper ==
    /\ probe.op \in {"create", "present"}
    /\ probe.token # Null
    /\ probe.tamper = "none"
    /\ \E how \in {"flip", "payload", "extra", "short"} :
        LET tok == probe.token[1]
            tok2 == IF how = "flip" THEN [tok EXCEPT !.sig.flipped = TRUE]
                    ELSE IF how = "payload"
                         THEN [tok EXCEPT !.payload.sub = <<"root">>]
                    ELSE IF how = "extra" THEN [tok EXCEPT !.parts = 4]
                    ELSE [tok EXCEPT !.parts = 2]
        IN  probe' = [probe EXCEPT !.op = "present", !.token = Some(tok2), !.tamper = how]
    /\ UNCHANGED <<workload, now, config, verifiedJwtCache, routeAuthCache, userCache, cryptoKey,
                   pc, req, res, authorizedRoutes, calls>>

\* JWT.validate is called on the token at hand.
CallValidate ==
    /\ probe.op \in {"create", "present"}
    /\ probe.token # Null
    /\ \E a \in ValidateInputs :
        LET v == validate(probe.token, a, now, cryptoKey)
        IN  /\ cryptoKey' = v.key
            /\ probe' = [probe EXCEPT !.op = "validate", !.args = Some(a), !.out = v.payload,
                                      !.at = now]
    /\ UNCHANGED <<workload, now, config, verifiedJwtCache, routeAuthCache, userCache,
                   pc, req, res, authorizedRoutes, calls>>

TokenNext ==
    \/ CallCreate
    \/ Tamper
    \/ CallValidate
    \/ Tick

TokenSpec == TokenInit /\ [][TokenNext]_vars


-----------------------------------------------------------------------------
(* The Route Matcher called directly: matchRoute on a target and a pattern list. *)

ExactPublic == <<"example.com", "public">>

RoutePatterns == {AdminStar, AllStar, BadPattern, ExactPublic}

\* Every pattern list up to MaxRoutes long; the empty one also stands for an
\* absent list (matchRoute treats both alike, part_015:56).
RouteLists == UNION {[1..n -> RoutePatterns] : n \in 0..MaxRoutes}

RouteInit ==
    /\ InitOf("route-matcher")
    /\ \E url \in Urls, routes \in RouteLists :
        probe = [op |-> "none", url |-> url, routes |-> routes, threw |-> FALSE,
                 isAuthorized |-> FALSE, matchedRoute |-> Null]

\* matchRoute(url, authorizedRoutes) is called.
CallMatchRoute ==
    /\ probe.op = "none"
    /\ LET mr == matchRoute(probe.url, probe.routes)
       IN  probe' = [probe EXCEPT !.op = "matchRoute", !.threw = mr.threw,
                                  !.isAuthorized = mr.isAuthorized,
                                  !.matchedRoute = mr.matchedRoute]
    /\ UNCHANGED <<workload, now, config, verifiedJwtCache, routeAuthCache, userCache, cryptoKey,
                   pc, req, res, authorizedRoutes, calls>>

RouteNext == CallMatchRoute

RouteSpec == RouteInit /\ [][RouteNext]_vars


-----------------------------------------------------------------------------
(* The Credential Store called directly: getUser calls one after another,    *)
(* each answered from the cache or by a backend fetch that settles later.    *)

StoreUsernames == {<<>>, Alice, Eve, Mallory}

StoreInit ==
    /\ InitOf("credential-store")
    /\ probe = [op |-> "none", username |-> <<>>, fetched |-> FALSE, failed |-> FALSE,
                out |-> Null]

\* getUser(username) is called: it returns at once, or awaits kv.get.
CallGetUser ==
    /\ probe.op \in {"none", "returned"}
    /\ \E username \in StoreUsernames :
        probe' = IF username = <<>>
                 THEN [op |-> "returned", username |-> username, fetched |-> FALSE,
                       failed |-> FALSE, out |-> Null]
                 ELSE IF UserCached(userCache, username, now)
                      THEN [op |-> "returned", username |-> username, fetched |-> FALSE,
                            failed |-> FALSE, out |-> userCache[username].user]
                      ELSE [op |-> "pending", username |-> username, fetched |-> TRUE,
                            failed |-> FALSE, out |-> Null]
    /\ UNCHANGED <<workload, now, config, verifiedJwtCache, routeAuthCache, userCache, cryptoKey,
                   pc, req, res, authorizedRoutes, calls>>

\* kv.get settles, resolved or rejected, and getUser returns.
FetchSettles ==
    /\ probe.op = "pending"
    /\ \E rejected \in BOOLEAN :
        LET f == AfterFetch(userCache, probe.username, rejected, now, config.userCacheTtlMs)
        IN  /\ userCache' = f.users
            /\ probe' = [probe EXCEPT !.op = "returned", !.out = f.user, !.failed = f.failed]
    /\ UNCHANGED <<workload, now, config, verifiedJwtCache, routeAuthCache, cryptoKey,
                   pc, req, res, authorizedRoutes, calls>>

StoreNext ==
    \/ CallGetUser
    \/ FetchSettles
    \/ Tick

StoreSpec == StoreInit /\ [][StoreNext]_vars


-----------------------------------------------------------------------------
(* Vocabulary of the properties *)

\* The request in slot p bears a token that the verification cache holds unexpired.
TokenCachedFresh(r) ==
    /\ r.token # Null
    /\ MapHas(verifiedJwtCache, r.token[1])
    /\ now < MapGet(verifiedJwtCache, r.token[1]).expires

\* Slot p accepts a request in this step.
Arrives(p) == pc[p] = "idle" /\ pc'[p] # "idle"

\* The token would pass full verification at time t under the configured secret.
TokenVerifiesAt(token, t) ==
    /\ token.parts = 3
    /\ SignatureValid(token, config.jwtSecret)
    /\ token.payload.exp >= t \div 1000
    /\ token.payload.nbf <= t \div 1000
    /\ token.payload.iss = Null /\ token.payload.aud = Null
    /\ IsArray(token.payload.routes)

\* The header does not name a stored user with that user's password.
HeaderInvalid(h) ==
    \/ ~h.b64ok
    \/ \A i \in 1..Len(h.text) :
          \/ h.text[i] # ":"
          \/ \E j \in 1..(i - 1) : h.text[j] = ":"
          \/ KvStore(SubSeq(h.text, 1, i - 1)) = Null
          \/ KvStore(SubSeq(h.text, 1, i - 1))[1].password # SubSeq(h.text, i + 1, Len(h.text))

StoreOrCryptoCalls == {"getUser", "kvGet", "validate", "importKey", "verify"}

-----------------------------------------------------------------------------
(* C1 *)

C1_Identity(p) ==
    LET e == MapGet(verifiedJwtCache, req'[p].token[1])
    IN  /\ pc'[p] = "done"
        /\ res'[p].isAuthed
        /\ res'[p].username = Some(e.payload.sub)
        /\ res'[p].payload = Some(e.payload)
        /\ authorizedRoutes'[p] = e.payload.routes[1]
        /\ calls'[p] \cap StoreOrCryptoCalls = {}

-----------------------------------------------------------------------------
(* C2 *)

\* Slot p resumes from the cryptographic verify with a token that verifies, after
\* an invalid credential header.
C2_Case(p) ==
    /\ pc[p] = "verify" /\ pc'[p] = "done"
    /\ req[p].header # Null /\ HeaderInvalid(req[p].header[1])
    /\ TokenVerifiesAt(req[p].token[1], now)

C2_Token(p) ==
    /\ res[p].error = ErrHeader
    /\ res'[p].isAuthed
    /\ res'[p].username = Some(req[p].token[1].payload.sub)
    /\ res'[p].error # ErrHeader
    /\ res'[p].isAuthorized => res'[p].error = Null

-----------------------------------------------------------------------------
(* C3 *)

\* Full validation has been entered only unauthenticated and with a token.
C3_Guard(p) ==
    "validate" \in calls[p]
        => /\ req[p].token # Null
           /\ "cacheHit" \notin calls[p]
           /\ res[p].method # Some("header")
           /\ pc[p] \in {"importKey", "verify"} => ~res[p].isAuthed

\* What the verification cache must be after a successful full verification.
C3_Inserted(p) ==
    LET token == req[p].token[1]
        n == Min(config.cacheEvictionBatchSize, Len(verifiedJwtCache))
        room == IF Len(verifiedJwtCache) >= config.maxCacheSize
                THEN SubSeq(verifiedJwtCache, n + 1, Len(verifiedJwtCache))
                ELSE verifiedJwtCache
        entry == [key |-> token,
                  val |-> [payload |-> token.payload, expires |-> now + config.cacheTtlMs]]
    IN  /\ pc'[p] = "done"
        /\ IF token \in MapKeys(room)
           THEN /\ Len(verifiedJwtCache') = Len(room)
                /\ \A i \in 1..Len(room) :
                     verifiedJwtCache'[i] = IF room[i].key = token THEN entry ELSE room[i]
           ELSE verifiedJwtCache' = Append(room, entry)

C3_Success(p) == pc[p] = "verify" /\ pc'[p] # "verify" /\ TokenVerifiesAt(req[p].token[1], now)

-----------------------------------------------------------------------------
(* C4 *)

\* The header, split at its first colon, names a stored user with that password.
HeaderMatchesStore(h) == ~HeaderInvalid(h)

\* What the header step leaves behind when it accepted: header identity, no payload.
C4_AcceptedAsHeader(p) ==
    \/ res[p].method = Some("header")
    \/ /\ "fault" \in calls[p]
       /\ res[p].isAuthed /\ res[p].payload = Null

\* C4: the header check is attempted only after a cache miss; the header is split
\* at its first colon only; the user is looked up through the Credential Store;
\* method is set to 'header' exactly when a record came back whose password equals
\* the secret; every other header records the header error and goes on to the
\* token step.  (An authorization fault later overwrites the method with 'error'.)
C4_HeaderCheck ==
    \A p \in Procs :
        (pc[p] \in {"importKey", "verify", "done"} /\ req[p].header # Null)
            => LET h == req[p].header[1]
                   accepts == HeaderMatchesStore(h) /\ "kvFail" \notin calls[p]
               IN  IF "cacheHit" \in calls[p]
                   THEN /\ calls[p] \cap {"getUser", "kvGet", "headerThrow"} = {}
                        /\ res[p].method # Some("header")
                   ELSE /\ C4_AcceptedAsHeader(p) <=> accepts
                        /\ accepts => /\ res[p].username = Some(SubSeq(h.text, 1, 1))
                                      /\ "validate" \notin calls[p]
                        /\ (h.b64ok /\ \E i \in 1..Len(h.text) : h.text[i] = ":")
                              => "getUser" \in calls[p]
                        /\ ~accepts => /\ "headerThrow" \in calls[p]
                                       /\ req[p].token # Null => "validate" \in calls[p]
                                       /\ pc[p] \in {"importKey", "verify"} => res[p].error = ErrHeader
                                       /\ (pc[p] = "done" /\ req[p].token = Null)
                                             => res[p].error = ErrHeader

\* A header whose secret contains a colon is accepted after a Credential Store lookup.
C4_Witness ==
    \E p \in Procs :
        /\ pc[p] = "done"
        /\ req[p].header = Some(HdrGood)
        /\ res[p].method = Some("header")
        /\ "kvGet" \in calls[p]

-----------------------------------------------------------------------------
(* C5 *)

\* C5: in every returned result isAuthorized implies isAuthed; an unauthenticated
\* result has isAuthorized false, matchedRoute null, and method 'error' when an
\* error was recorded (a credential was presented) and null when none was.
C5_Unauthenticated ==
    \A p \in Procs :
        pc[p] = "done"
            => /\ res[p].isAuthorized => res[p].isAuthed
               /\ ~res[p].isAuthed
                    => /\ ~res[p].isAuthorized
                       /\ res[p].matchedRoute = Null
                       /\ res[p].error # Null => res[p].method = Some("error")
                       /\ res[p].error = Null => res[p].method = Null
                       /\ (req[p].token = Null /\ req[p].header = Null) => res[p].method = Null
                       /\ (req[p].token # Null \/ req[p].header # Null)
                             => res[p].method = Some("error")

\* A rejected credential: unauthenticated, method 'error'.
C5_Witness ==
    \E p \in Procs :
        /\ pc[p] = "done"
        /\ ~res[p].isAuthed
        /\ req[p].header # Null
        /\ res[p].method = Some("error")

-----------------------------------------------------------------------------
(* C6 *)

Positions == {"idle", "kvGet", "importKey", "verify", "done"}

\* C6 as stated: no exception reaches the caller, and an exception raised in any
\* step (the header check included) gives method 'error' with the internal-error
\* message.  Violated: see C6_NeverThrows.
C6_AsStated ==
    \A p \in Procs :
        /\ pc[p] \in Positions
        /\ (pc[p] = "done" /\ calls[p] \cap {"headerThrow", "fault"} # {})
              => /\ res[p].method = Some("error")
                 /\ res[p].error = ErrInternal

\* C6 (amended): no exception reaches the caller and every call ends in a result;
\* an exception that reaches the orchestrator's own catch (one raised by the
\* authorization step) gives method 'error' and the internal-error message, while
\* an exception raised in the header check is caught by that step and leaves at
\* most the header credential error.
C6_NeverThrows ==
    \A p \in Procs :
        /\ pc[p] \in Positions
        /\ (pc[p] = "done" /\ "fault" \in calls[p])
              => /\ res[p].method = Some("error")
                 /\ res[p].error = ErrInternal
        /\ (pc[p] = "done" /\ "headerThrow" \in calls[p] /\ "fault" \notin calls[p])
              => /\ res[p].error # ErrInternal
                 /\ ~res[p].isAuthed => (res[p].method = Some("error") /\ res[p].error = ErrHeader)

\* An exception in the authorization step, converted into the internal-error result.
C6_Witness ==
    \E p \in Procs :
        /\ pc[p] = "done"
        /\ "fault" \in calls[p]
        /\ res[p].error = ErrInternal

-----------------------------------------------------------------------------
(* C7 *)

FixedMessages(pathname) ==
    {Null, ErrHeader, ErrToken, ErrInternal, ErrNotAuthorized(pathname)}

\* C7: the error field of a result is null or one of the four fixed messages (the
\* not-authorized one carrying this request's pathname), never an exception's text.
C7_FixedErrors ==
    \A p \in Procs :
        pc[p] # "idle" => res[p].error \in FixedMessages(req[p].url.pathname)

\* Both kinds of caught exception in one request: a header that failed its check
\* and a fault in authorization; the result carries only the generic message.
C7_Witness ==
    \E p \in Procs :
        /\ pc[p] = "done"
        /\ {"headerThrow", "fault"} \subseteq calls[p]
        /\ res[p].error = ErrInternal

-----------------------------------------------------------------------------
(* C8 *)

\* C8 as stated: when the header attempt fails and the token fails full
\* verification, the result's error is the token message, not the header message.
C8_TokenErrorWins ==
    \A p \in Procs :
        (/\ pc[p] = "done"
         /\ "headerThrow" \in calls[p]
         /\ "validate" \in calls[p]
         /\ ~res[p].isAuthed)
            => res[p].error = ErrToken

-----------------------------------------------------------------------------
(* C9 *)

C9_Bound ==
    /\ Len(verifiedJwtCache) <= config.maxCacheSize
    /\ Len(routeAuthCache) <= config.maxCacheSize

\* With maxSize = 3 and batch = 1, a fourth distinct token goes into a full cache.
C9_FourthToken(p) ==
    /\ config.maxCacheSize = 3 /\ config.cacheEvictionBatchSize = 1
    /\ Len(verifiedJwtCache) = 3
    /\ pc[p] = "verify"
    /\ req[p].token[1] \notin MapKeys(verifiedJwtCache)
    /\ req[p].token[1] \in MapKeys(verifiedJwtCache')

\* C9: with maxCacheSize >= 1 and batch >= 1 neither cache ever holds more than
\* maxCacheSize entries; with maxSize = 3 and batch = 1 the insertion of a fourth
\* distinct token leaves size <= 3 and the first-inserted key absent.
C9_SizeBound ==
    /\ [](config.maxCacheSize >= 1 /\ config.cacheEvictionBatchSize >= 1 => C9_Bound)
    /\ [][\A p \in Procs :
            C9_FourthToken(p)
                => /\ Len(verifiedJwtCache') <= 3
                   /\ verifiedJwtCache[1].key \notin MapKeys(verifiedJwtCache')]_vars

\* The fourth token is in, the cache is at its bound of 3, one entry was evicted.
C9_Witness ==
    \E p \in Procs :
        /\ config.maxCacheSize = 3
        /\ pc[p] = "done"
        /\ "evict-jwt" \in calls[p]
        /\ Len(verifiedJwtCache) = 3
        /\ verifiedJwtCache[3].key = req[p].token[1]

-----------------------------------------------------------------------------
(* C10 *)

\* cache2 is cache after at most one high-water-mark insertion: nothing removed
\* below maxSize, exactly the min(batch, size) oldest removed at or above it.
C10_Step(cache, cache2) ==
    \/ cache2 = cache
    \/ LET n == Min(config.cacheEvictionBatchSize, Len(cache))
           kept == IF Len(cache) >= config.maxCacheSize
                   THEN SubSeq(cache, n + 1, Len(cache))
                   ELSE cache
       IN  \E i \in 1..Len(cache2) :
              IF cache2[i].key \in MapKeys(kept)
              THEN /\ Len(cache2) = Len(kept)
                   /\ \A j \in 1..Len(kept) :
                        cache2[j] = IF j = i THEN cache2[i] ELSE kept[j]
                   /\ kept[i].key = cache2[i].key
              ELSE /\ i = Len(cache2)
                   /\ SubSeq(cache2, 1, i - 1) = kept

\* Slot p finishes authorization on an entry the authorization cache already had.
C10_RouteHit(p) ==
    /\ pc[p] # "done" /\ pc'[p] = "done"
    /\ res'[p].isAuthed
    /\ MapHas(routeAuthCache, RouteCacheKey(res'[p].username[1], req'[p].url))

\* C10: eviction is FIFO and triggered at the high-water mark, in each cache on
\* its own: an insertion below maxSize removes nothing, one at or above it removes
\* exactly the min(batch, size) earliest entries, and a cache hit changes nothing.
C10_Fifo ==
    [][/\ C10_Step(verifiedJwtCache, verifiedJwtCache')
       /\ C10_Step(routeAuthCache, routeAuthCache')
       /\ Len(verifiedJwtCache) < config.maxCacheSize
            => MapKeys(verifiedJwtCache) \subseteq MapKeys(verifiedJwtCache')
       /\ Len(routeAuthCache) < config.maxCacheSize
            => MapKeys(routeAuthCache) \subseteq MapKeys(routeAuthCache')
       /\ \A p \in Procs :
            /\ (Arrives(p) /\ TokenCachedFresh(req'[p]))
                  => verifiedJwtCache' = verifiedJwtCache
            /\ C10_RouteHit(p) => routeAuthCache' = routeAuthCache]_vars

\* One request evicted from the full verification cache while the authorization
\* cache, below its bound, only grew.
C10_Witness ==
    \E p \in Procs :
        /\ pc[p] = "done"
        /\ "evict-jwt" \in calls[p]
        /\ "evict-route" \notin calls[p]
        /\ config.cacheEvictionBatchSize > config.maxCacheSize
        /\ Len(routeAuthCache) = 1 /\ Len(verifiedJwtCache) = 1
        /\ routeAuthCache[1].key = RouteCacheKey(res[p].username[1], req[p].url)


-----------------------------------------------------------------------------
(* C11 *)

\* The verification cache still holds, for the token of slot p, an entry that had
\* already lapsed when this request read it.
C11_LapsedEntryKept(p) ==
    /\ req[p].token # Null
    /\ MapHas(verifiedJwtCache, req[p].token[1])
    /\ MapGet(verifiedJwtCache, req[p].token[1]).expires <= res[p].timestamp

\* C11: a verification-cache entry is purged by the TTL-lapse check on read: once a
\* request bearing a token has read that token's entry and found now >= expires,
\* the entry is no longer in the verification cache.
C11_PurgedOnRead ==
    \A p \in Procs : pc[p] = "done" => ~C11_LapsedEntryKept(p)


-----------------------------------------------------------------------------
(* C12 *)

\* Slot p's request comes to its end in this step.
C12_Finishes(p) == pc[p] # "done" /\ pc'[p] = "done"

\* C12: the authorization cache is read and written only inside a request already
\* authenticated in that same request: a step that changes the authorization cache
\* ends an authenticated request, and a request that ends unauthenticated leaves
\* the cache as it was and carries no authorization decision, cached or computed.
C12_AuthorizationCacheGuarded ==
    [][/\ routeAuthCache' # routeAuthCache
            => \E p \in Procs : C12_Finishes(p) /\ res'[p].isAuthed
       /\ \A p \in Procs :
            (C12_Finishes(p) /\ ~res'[p].isAuthed)
                => /\ routeAuthCache' = routeAuthCache
                   /\ ~res'[p].isAuthorized
                   /\ res'[p].matchedRoute = Null]_vars

\* A rejected header names a user for whom the authorization cache holds a
\* positive decision on this very target; the request is not given it.
C12_Witness ==
    \E p \in Procs :
        /\ pc[p] = "done"
        /\ ~res[p].isAuthed
        /\ res[p].username # Null
        /\ MapHas(routeAuthCache, RouteCacheKey(res[p].username[1], req[p].url))
        /\ MapGet(routeAuthCache, RouteCacheKey(res[p].username[1], req[p].url)).isAuthorized
        /\ ~res[p].isAuthorized


-----------------------------------------------------------------------------
(* C13 *)

\* C13: validate rejects with null every token that does not consist of exactly 3
\* dot-separated segments, those with fewer and those with more.
C13_ExactlyThreeSegments ==
    (probe.op = "validate" /\ probe.token[1].parts # 3) => probe.out = Null

-----------------------------------------------------------------------------
(* C14 *)

\* The token validate was given carries a claim it must refuse, under the issuer
\* and audience it was called with and at the time of the call.
C14_BadClaim ==
    LET pl == probe.token[1].payload
    IN  \/ pl.exp < NowSeconds(probe.at)
        \/ pl.nbf > NowSeconds(probe.at)
        \/ pl.iss # probe.args[1].issuer
        \/ pl.aud # probe.args[1].audience
        \/ pl.routes = Null
        \/ pl.routes = NotAnArray

\* C14: validate returns null, and does not throw, for a token whose exp is in the
\* past, whose nbf is in the future, whose iss or aud differs from the configured
\* one, or whose routes claim is missing or no array, whatever its signature; a
\* secret that makes getCryptoKey throw gives null as well.
C14_RejectsBadClaims ==
    probe.op = "validate"
        => /\ C14_BadClaim => probe.out = Null
           /\ SecretRejected(probe.args[1].jwtSecret) => probe.out = Null

\* A correctly signed token whose only defect is a routes claim that is no array.
C14_Witness ==
    /\ probe.op = "validate"
    /\ probe.tamper = "none"
    /\ cryptoKey # Null
    /\ SignatureValid(probe.token[1], cryptoKey[1])
    /\ probe.token[1].payload.routes = NotAnArray
    /\ probe.token[1].payload.iss = probe.args[1].issuer
    /\ probe.token[1].payload.aud = probe.args[1].audience
    /\ probe.out = Null

-----------------------------------------------------------------------------
(* C15 *)

\* validate was called on the untouched token create made, with create's secret,
\* issuer and audience, no later than the token's exp.
C15_RoundTripCase ==
    /\ probe.op = "validate"
    /\ probe.input # Null
    /\ probe.tamper = "none"
    /\ probe.args[1].jwtSecret = probe.input[1].jwtSecret
    /\ probe.args[1].issuer = probe.input[1].issuer
    /\ probe.args[1].audience = probe.input[1].audience
    /\ NowSeconds(probe.at) <= probe.token[1].payload.exp

\* C15: round trip; verifying a token produced by create with the same secret,
\* issuer and audience before its expiry returns a payload whose sub equals the
\* username and whose routes equal the routes given to create.
C15_RoundTrip ==
    C15_RoundTripCase
        => /\ probe.out # Null
           /\ probe.out[1].sub = probe.input[1].username
           /\ probe.out[1].routes = Some(probe.input[1].routes)

-----------------------------------------------------------------------------
(* C16 *)

\* C16: a token whose signature segment is not the MAC of its own header.payload
\* text under the engine's key is rejected and its payload never returned: a
\* flipped signature bit or a payload changed under the old signature gives null.
C16_TamperRejected ==
    probe.op = "validate"
        => /\ probe.out # Null
                => /\ cryptoKey # Null
                   /\ probe.token[1].sig = Hmac(cryptoKey[1], probe.token[1].payload)
           /\ probe.tamper \in {"flip", "payload"} => probe.out = Null

\* A token create made, one signature bit flipped, validated with create's own
\* secret, issuer and audience before expiry, and rejected.
C16_Witness ==
    /\ probe.op = "validate"
    /\ probe.input # Null
    /\ probe.tamper = "flip"
    /\ probe.args[1].jwtSecret = probe.input[1].jwtSecret
    /\ probe.args[1].issuer = probe.input[1].issuer
    /\ probe.args[1].audience = probe.input[1].audience
    /\ NowSeconds(probe.at) <= probe.token[1].payload.exp
    /\ probe.out = Null

-----------------------------------------------------------------------------
(* C17 *)

\* C17: token creation throws, producing no token, whenever the secret is absent,
\* shorter than the minimum length floor, or the known placeholder.
C17_WeakSecretFatal ==
    (/\ probe.op = "create"
     /\ \/ probe.input[1].jwtSecret = ""
        \/ Len(probe.input[1].jwtSecret) < MinSecretLength
        \/ probe.input[1].jwtSecret = DefaultSecret)
        => probe.threw /\ probe.token = Null


-----------------------------------------------------------------------------
(* C18 *)

\* The i-th pattern of the list compiles and matches the target.
C18_Matches(i) ==
    /\ ~CompileThrows(probe.routes[i])
    /\ RegexTest(probe.routes[i], UrlString(probe.url))

\* The lowest index of a matching pattern, 0 when none matches.
C18_FirstMatch ==
    IF \E i \in 1..Len(probe.routes) : C18_Matches(i)
    THEN CHOOSE i \in 1..Len(probe.routes) :
            C18_Matches(i) /\ \A j \in 1..(i - 1) : ~C18_Matches(j)
    ELSE 0

\* What the claim says matchRoute returns.
C18_Answer ==
    /\ ~probe.threw
    /\ IF C18_FirstMatch # 0
       THEN probe.isAuthorized /\ probe.matchedRoute = Some(probe.routes[C18_FirstMatch])
       ELSE ~probe.isAuthorized /\ probe.matchedRoute = Null

\* A pattern the compiler rejects stands before the first match, or anywhere in a
\* list without a match.
C18_RejectedPatternReached ==
    \E i \in 1..Len(probe.routes) :
        /\ CompileThrows(probe.routes[i])
        /\ C18_FirstMatch = 0 \/ i < C18_FirstMatch

\* C18 as stated: matchRoute returns isAuthorized = true with the lowest-index
\* matching pattern, and isAuthorized = false with matchedRoute = null when the
\* list is empty or nothing matches.  Violated: see C18_FirstMatchWins.
C18_AsStated == probe.op = "matchRoute" => C18_Answer

\* C18 (amended): the patterns are tested in array order and the first match wins,
\* as stated, as long as every pattern tried compiles; when a pattern the compiler
\* rejects is reached before any match, matchRoute throws and returns nothing.
C18_FirstMatchWins ==
    probe.op = "matchRoute"
        => IF C18_RejectedPatternReached THEN probe.threw ELSE C18_Answer

\* Two different patterns of the list match, after one that does not; the
\* earlier of the two is the answer.
C18_Witness ==
    /\ probe.op = "matchRoute"
    /\ Len(probe.routes) = 3
    /\ ~C18_Matches(1) /\ C18_Matches(2) /\ C18_Matches(3)
    /\ probe.routes[2] # probe.routes[3]
    /\ probe.isAuthorized
    /\ probe.matchedRoute = Some(probe.routes[2])


-----------------------------------------------------------------------------
(* C19 *)

\* This step is a getUser call; the call is for probe'.username.
C19_Called == probe.op \in {"none", "returned"} /\ probe' # probe

\* This step is the return of a getUser call whose fetch and parse succeeded.
C19_Fetched == probe.op = "pending" /\ probe'.op = "returned" /\ ~probe'.failed

\* C19: getUser is cache-first with TTL: while now < entry.expires a call returns
\* the cached value without a backend fetch, for a found user and for a cached
\* not-found alike; both are cached with the same TTL; once the TTL has lapsed
\* the next call fetches from the backend again.
C19_CacheFirstWithTtl ==
    [][LET u == probe'.username
       IN  /\ (C19_Called /\ u \in DOMAIN userCache /\ now < userCache[u].expires)
                => /\ probe'.op = "returned"
                   /\ ~probe'.fetched
                   /\ probe'.out = userCache[u].user
                   /\ userCache' = userCache
           /\ (C19_Called /\ u \in DOMAIN userCache /\ now >= userCache[u].expires)
                => probe'.op = "pending" /\ probe'.fetched
           /\ C19_Fetched
                => /\ u \in DOMAIN userCache'
                   /\ userCache'[u].user = probe'.out
                   /\ userCache'[u].expires = now + config.userCacheTtlMs]_vars

\* A not-found result is answered from the cache, with no fetch, while the entry
\* of another user has already lapsed.
C19_Witness ==
    /\ probe.op = "returned"
    /\ probe.username = Eve
    /\ ~probe.fetched
    /\ probe.out = Null
    /\ Eve \in DOMAIN userCache /\ now < userCache[Eve].expires
    /\ Alice \in DOMAIN userCache /\ now >= userCache[Alice].expires

-----------------------------------------------------------------------------
(* C20 *)

\* This step is the return of a getUser call whose fetch or parse failed.
C20_FetchFailed == probe.op = "pending" /\ probe'.op = "returned" /\ probe'.failed

\* C20: when the backend fetch or the parsing of the record fails, getUser returns
\* null without throwing and leaves the user cache unchanged, so that the next
\* getUser for that username issues a new backend fetch.
C20_FailureNotCached ==
    [][/\ C20_FetchFailed => (probe'.out = Null /\ userCache' = userCache)
       /\ (/\ probe.op = "returned" /\ probe.failed
           /\ probe' # probe
           /\ probe'.username = probe.username)
            => probe'.op = "pending" /\ probe'.fetched]_vars

\* A record that does not parse: getUser returned null and cached nothing for it.
C20_Witness ==
    /\ probe.op = "returned"
    /\ probe.failed
    /\ probe.username = Mallory
    /\ probe.out = Null
    /\ Mallory \notin DOMAIN userCache
    /\ userCache # [u \in {} |-> Null]


-----------------------------------------------------------------------------
(* C27 *)

\* create has returned a token for an input whose public and private claim
\* extensions name a common key.
C27_Collision ==
    /\ probe.op = "create"
    /\ ~probe.threw
    /\ DOMAIN probe.input[1].publicClaims \cap DOMAIN probe.input[1].privateClaims # {}

\* C27: when create is given public and private claim extensions that define
\* the same key, the payload of the token carries the private claim's value
\* for that key.
C27_PrivateWins ==
    C27_Collision =>
        \A f \in DOMAIN probe.input[1].publicClaims \cap DOMAIN probe.input[1].privateClaims :
            /\ f \in DOMAIN probe.token[1].payload
            /\ probe.token[1].payload[f] = probe.input[1].privateClaims[f]

\* A token was created from colliding extensions with different values.
C27_Witness ==
    /\ C27_Collision
    /\ probe.input[1].publicClaims = PublicRole
    /\ probe.input[1].privateClaims = PrivateRole
    /\ PublicRole["role"] # PrivateRole["role"]
    /\ probe.token[1].payload["role"] = <<"admin">>


-----------------------------------------------------------------------------
(* C26 *)

\* What a request records when it reaches the Credential Store or its backend.
CredentialStoreCalls == {"getUser", "kvGet", "kvFail"}

\* C26: a request that carries no programmatic credential header never makes
\* authenticate call the Credential Store or its backend, whatever the validity
\* of its token and whatever the caches hold: it is never suspended on kv.get,
\* it records no store call, and it leaves the user cache as it found it.
C26_NoHeaderNoStore ==
    [][\A p \in Procs :
        (req'[p].header = Null /\ pc[p] # pc'[p])
            => /\ pc'[p] # "kvGet"
               /\ calls'[p] \cap CredentialStoreCalls = {}
               /\ userCache' = userCache]_vars

\* A header-less request went through full verification of a token that fails
\* it, while the user cache already held a user fetched for an earlier request.
C26_Witness ==
    \E p \in Procs :
        /\ pc[p] = "done"
        /\ req[p].header = Null
        /\ req[p].token # Null
        /\ "verify" \in calls[p]
        /\ ~res[p].isAuthed
        /\ DOMAIN userCache # {}

-----------------------------------------------------------------------------
(* C28 *)

\* Slot p comes back from full verification with a token that failed it.
C28_VerificationFails(p) ==
    /\ pc[p] = "verify" /\ pc'[p] # "verify"
    /\ ~TokenVerifiesAt(req[p].token[1], now)

-----------------------------------------------------------------------------
(* C29 *)

\* Slot p accepts a request whose token is past its exp while the entry that the
\* verification cache made for it (verification time + cacheTtlMs) has not lapsed.
C29_StaleHit(p) ==
    /\ Arrives(p)
    /\ TokenCachedFresh(req'[p])
    /\ req'[p].token[1].payload.exp < NowSeconds(now)

C29_Accepted(p) ==
    /\ res'[p].isAuthed
    /\ "cacheHit" \in calls'[p]
    /\ "validate" \notin calls'[p]
    /\ res'[p].username = Some(req'[p].token[1].payload.sub)

-----------------------------------------------------------------------------
(* C30 *)

\* The username that the request in slot p asks the Credential Store for.
C30_Asked(p) == HeaderUsername(req[p].header[1].text)

\* Slot p's own kv.get settles in this step.
C30_Settles(p) == pc[p] = "kvGet" /\ pc'[p] # "kvGet"

\* Both slots missed the user cache for the same username and both fetches are
\* outstanding.
C30_Stampede ==
    /\ pc[1] = "kvGet" /\ pc[2] = "kvGet"
    /\ C30_Asked(1) = C30_Asked(2)

\* C30: a cache stampede is reachable and harmless.  Two concurrent getUser
\* calls for one uncached username can both miss and both fetch; when a call's
\* fetch settles, that call gets the value of its own fetch (null when its own
\* fetch failed, even if the other call has cached the user meanwhile), and
\* the user cache is left sound: other entries untouched, this one either
\* unchanged (own fetch failed) or the backend's record with a fresh expiry.
C30_StampedeHarmless ==
    [][\A p \in Procs :
        C30_Settles(p)
            => LET u == C30_Asked(p)
               IN  /\ DOMAIN userCache' = DOMAIN userCache \cup
                                            (IF "kvFail" \in calls'[p] THEN {} ELSE {u})
                   /\ \A v \in DOMAIN userCache \ {u} : userCache'[v] = userCache[v]
                   /\ IF "kvFail" \in calls'[p]
                      THEN /\ userCache' = userCache
                           /\ ~res'[p].isAuthed
                           /\ res'[p].error = ErrHeader
                      ELSE /\ userCache'[u] = [user |-> KvStore(u),
                                               expires |-> now + config.userCacheTtlMs]
                           /\ res'[p].isAuthed <=> HeaderMatchesStore(req[p].header[1])
                           /\ res'[p].isAuthed => res'[p].username = Some(u)]_vars

\* Two fetches for the same uncached username are outstanding at once.
C30_Witness ==
    /\ C30_Stampede
    /\ C30_Asked(1) \notin DOMAIN userCache
    /\ {"getUser"} = calls[1] /\ {"getUser"} = calls[2]

\* The stampede has run its course with different outcomes: one call's fetch
\* failed after the other call had cached the user, and the entry is intact.
C30_Settled ==
    /\ pc[1] = "done" /\ pc[2] = "done"
    /\ req[1].header = Some(HdrGood) /\ req[2].header = Some(HdrGood)
    /\ "kvGet" \in calls[1] /\ "kvFail" \notin calls[1] /\ res[1].isAuthed
    /\ "kvFail" \in calls[2] /\ ~res[2].isAuthed
    /\ Alice \in DOMAIN userCache /\ userCache[Alice].user = KvStore(Alice)


-----------------------------------------------------------------------------
(* C25 *)

\* C25: every in-memory cache stays within a bound fixed by configuration
\* (maxCacheSize), however many distinct tokens, usernames and targets are
\* presented: the verification cache, the authorization cache and the
\* Credential Store's user cache.  Violated by the user cache, which is only
\* ever added to (creds.mjs:66-69, 76-79).
C25_AllCachesBounded ==
    /\ Len(verifiedJwtCache) <= config.maxCacheSize
    /\ Len(routeAuthCache) <= config.maxCacheSize
    /\ Cardinality(DOMAIN userCache) <= config.maxCacheSize


-----------------------------------------------------------------------------
(* handleLogin (handlers/login.mjs:27-75), called directly *)

\* config.sessionTimeout when SESSION_TIMEOUT is not set
DefaultSessionTimeout == 3600

\* A private claim extension that names the routes claim itself.
PrivateRoutes == [f \in {"routes"} |-> Some(<<AllStar>>)]

\* The two user stores that config.userStore has been in this repository: the
\* UserStore module object, username -> password (creds.mjs:12-21, preloaded by
\* createAuthConfig in part_009:68), and the CredentialStore instance over KV
\* (config.mjs:73).
UserStoreShapes == {"module", "instance"}

\* The UserStore module's object: the same user as the KV namespace holds.
ModuleUserStore(username) ==
    IF KvStore(username) # Null THEN Some(KvStore(username)[1].password) ELSE Null

\* userStore[username] (login.mjs:45), a property read: undefined for a name
\* the object has no property for.  The CredentialStore instance has the
\* properties kv, logger, cacheTtlMs and userCache and no property per user.
UserStoreProperty(shape, username) ==
    IF username = Null THEN Null
    ELSE IF shape = "module" THEN ModuleUserStore(username[1])
    ELSE Null

\* The JSON bodies of a login request: one that request.json() rejects, and
\* objects with or without username, password and claim extensions.
LoginBodies ==
    {[parsable |-> FALSE, username |-> Null, password |-> Null,
      publicClaims |-> NoClaims, privateClaims |-> NoClaims]}
    \cup [parsable : {TRUE},
          username : {Null, Some(Alice), Some(Eve)},
          password : {Null, Some(<<"p", ":", "q">>), Some(<<"wrong">>)},
          publicClaims : {NoClaims},
          privateClaims : {NoClaims, PrivateRoutes}]

\* What JWT.create({...config, username, publicClaims, privateClaims}) receives
\* (login.mjs:46): config has no routes, issuer or audience key (its keys are
\* jwtIssuer and jwtAudience), so routes takes create's default [] and iss and
\* aud are undefined.  An undefined username leaves sub out of the JSON; the
\* model writes the empty name for it.
LoginCreateArgs(body, cfg) ==
    [username |-> IF body.username = Null THEN <<>> ELSE body.username[1],
     routes |-> <<>>,
     jwtSecret |-> cfg.jwtSecret,
     sessionTimeout |-> DefaultSessionTimeout,
     issuer |-> Null,
     audience |-> Null,
     publicClaims |-> body.publicClaims,
     privateClaims |-> body.privateClaims]

LoginResponse(status, token, key) == [status |-> status, token |-> token, key |-> key]

\* handleLogin (login.mjs:27-75) at time t with JWT._cryptoKey = key: the
\* status, the token of the Set-Cookie header if any, and the key left cached.
handleLogin(method, body, shape, cfg, t, key) ==
    IF method # "POST" THEN LoginResponse(405, Null, key)
    ELSE IF ~body.parsable THEN LoginResponse(400, Null, key)
    ELSE IF UserStoreProperty(shape, body.username) = body.password
         THEN LET c == create(LoginCreateArgs(body, cfg), t, key)
              IN  IF c.threw THEN LoginResponse(400, Null, c.key)
                  ELSE LoginResponse(200, c.token, c.key)
         ELSE LoginResponse(401, Null, key)

LoginInit ==
    /\ InitOf("login")
    /\ \E method \in {"GET", "POST"}, body \in LoginBodies, shape \in UserStoreShapes :
        probe = [op |-> "none", method |-> method, body |-> body, shape |-> shape,
                 status |-> 0, token |-> Null, at |-> 0]

\* handleLogin(request, env, ctx, {config}) is called.
CallHandleLogin ==
    /\ probe.op = "none"
    /\ LET r == handleLogin(probe.method, probe.body, probe.shape, config, now, cryptoKey)
       IN  /\ cryptoKey' = r.key
           /\ probe' = [probe EXCEPT !.op = "login", !.status = r.status, !.token = r.token,
                                     !.at = now]
    /\ UNCHANGED <<workload, now, config, verifiedJwtCache, routeAuthCache, userCache,
                   pc, req, res, authorizedRoutes, calls>>

LoginNext ==
    \/ CallHandleLogin
    \/ Tick

LoginSpec == LoginInit /\ [][LoginNext]_vars

-----------------------------------------------------------------------------
(* C23 *)

\* The body names a stored user and gives that user's stored password.
C23_StoredCredentials ==
    /\ probe.body.parsable
    /\ probe.body.username # Null
    /\ probe.body.password # Null
    /\ KvStore(probe.body.username[1]) # Null
    /\ KvStore(probe.body.username[1])[1].password = probe.body.password[1]

\* C23: handleLogin establishes a session (status 200 and a Set-Cookie header
\* with a signed token) only when the JSON body supplies an existing username
\* with the password stored for it; every other POST body (unknown username,
\* wrong password, missing username, missing password) gets 401 or 400 and
\* no token.  Violated: userStore[username] === password holds for
\* undefined === undefined (login.mjs:45).
C23_SessionOnlyForStoredCredentials ==
    (probe.op = "login" /\ probe.method = "POST" /\ ~C23_StoredCredentials)
        => (probe.status \in {400, 401} /\ probe.token = Null)

-----------------------------------------------------------------------------
(* C24 *)

\* C24: the routes claim of every token that handleLogin issues equals the
\* routes array of that user's record in the credential store.  Violated:
\* handleLogin passes no routes to JWT.create (login.mjs:46).
C24_TokenRoutesFromRecord ==
    (probe.op = "login" /\ probe.token # Null)
        => /\ probe.body.username # Null
           /\ KvStore(probe.body.username[1]) # Null
           /\ probe.token[1].payload.routes = Some(KvStore(probe.body.username[1])[1].routes)

\* The stored user logs in with the stored password and no claim extensions,
\* and the token's routes claim is the empty array.
C24_EmptyRoutesIssued ==
    /\ probe.op = "login"
    /\ probe.status = 200
    /\ C23_StoredCredentials
    /\ probe.body.privateClaims = NoClaims
    /\ probe.token[1].payload.routes = Some(<<>>)
    /\ KvStore(probe.body.username[1])[1].routes # <<>>


-----------------------------------------------------------------------------
(* The two front doors: AuthioService.handleRequest (part_007:65-90) and the  *)
(* fetch handler made by createAuthHandler (part_012:38-70).  Both run        *)
(* authenticate, then ApiHandler, then UiHandler, then their own gate.        *)

Entries == {"handleRequest", "createAuthHandler"}

\* How many requests one behaviour of the front door serves.
MaxServed == 2

\* What the front door reads of a request besides what authenticate reads: the
\* method and JSON body (login API only), the rate limiter's verdict, the shape
\* of config.userStore, whether Accept includes text/html, and whether the
\* login page asset can be fetched.
RequestExtras(url) ==
    IF url.pathname = LoginApiPath
    THEN [method : {"POST"},
          body : {b \in LoginBodies :
                    /\ b.privateClaims = NoClaims
                    /\ b.username \in {Null, Some(Alice)}
                    /\ b.username = Null => b.password = Null},
          limited : BOOLEAN,
          shape : {"module"},
          acceptsHtml : {FALSE},
          assetOk : {TRUE}]
    ELSE [method : {"GET"},
          body : {b \in LoginBodies : ~b.parsable},
          limited : {FALSE},
          shape : {"instance"},
          acceptsHtml : BOOLEAN,
          assetOk : IF url.pathname = LoginUrlPath THEN BOOLEAN ELSE {TRUE}]

\* ApiHandler.handleRequest (api.mjs:15-75): a response, or null for a path that
\* is no auth API route.
ApiHandler(url, x, cfg, t, key) ==
    IF url.pathname = LoginApiPath
    THEN IF ~x.body.parsable THEN Some(LoginResponse(400, Null, key))
         ELSE IF x.body.username = Null THEN Some(LoginResponse(400, Null, key))
         ELSE IF x.limited THEN Some(LoginResponse(429, Null, key))
         ELSE Some(handleLogin(x.method, x.body, x.shape, cfg, t, key))
    ELSE IF url.pathname = LogoutApiPath
         THEN Some(LoginResponse(200, Null, key))
         ELSE Null

\* UiHandler.handleRequest (ui.mjs:21-63): the status of its response, or null
\* ("Not a UI route").
UiHandler(url, result, x) ==
    LET isLoginPageRoute == url.pathname = LoginUrlPath
        isProgrammaticRequest == result.method = Some("header")
    IN  IF result.isAuthed /\ isLoginPageRoute THEN Some(302)
        ELSE IF ~result.isAuthed /\ ~isLoginPageRoute /\ ~isProgrammaticRequest
                /\ x.acceptsHtml
             THEN Some(302)
        ELSE IF isLoginPageRoute THEN Some(IF x.assetOk THEN 200 ELSE 500)
        ELSE Null

\* The application's own response, when it is called.
AppStatus == 200

Gate(status, reached) == [status |-> status, reached |-> reached]

\* createGatekeeper's returned handler (part_012:16-29)
createGatekeeper(result) ==
    IF ~result.isAuthed THEN Gate(401, FALSE) ELSE Gate(AppStatus, TRUE)

\* An authorization gate that looks at isAuthed alone
EnforceAuthenticationOnly(result) ==
    IF ~result.isAuthed THEN Gate(401, FALSE) ELSE Gate(AppStatus, TRUE)

\* handleRequest's authorization gate (part_007:77-89)
EnforceAuthorization(result) ==
    IF ~result.isAuthorized
    THEN Gate(IF ~result.isAuthed THEN 401 ELSE 403, FALSE)
    ELSE Gate(AppStatus, TRUE)

\* The front door after authenticate has returned `result` (part_007:70-89,
\* part_012:52-68): who answered, with what status, whether the application
\* logic was called, the login token if one was issued, and JWT._cryptoKey.
Dispatch(entry, url, result, x, cfg, t, key) ==
    LET api == ApiHandler(url, x, cfg, t, key)
        ui == UiHandler(url, result, x)
        gate == IF entry = "handleRequest" THEN EnforceAuthorization(result)
                ELSE createGatekeeper(result)
    IN  IF api # Null
        THEN [by |-> "api", status |-> api[1].status, reached |-> FALSE,
              token |-> api[1].token, key |-> api[1].key]
        ELSE IF ui # Null
             THEN [by |-> "ui", status |-> ui[1], reached |-> FALSE, token |-> Null,
                   key |-> key]
             ELSE [by |-> IF gate.reached THEN "app" ELSE "gate", status |-> gate.status,
                   reached |-> gate.reached, token |-> Null, key |-> key]

ServiceInit ==
    /\ InitOf("service")
    /\ \E entry \in Entries :
        probe = [op |-> "none", entry |-> entry, url |-> UrlPublic, result |-> InitResult(0),
                 acceptsHtml |-> FALSE, by |-> "none", status |-> 0, reached |-> FALSE,
                 token |-> Null, served |-> 0]

\* A request arrives at the front door, which calls authenticate.
Arrive(p) ==
    /\ probe.served < MaxServed
    /\ Begin(p)

\* authenticate has returned; the front door answers the request.
Respond(p) ==
    /\ pc[p] = "done"
    /\ \E x \in RequestExtras(req[p].url) :
        LET d == Dispatch(probe.entry, req[p].url, res[p], x, config, now, cryptoKey)
        IN  /\ cryptoKey' = d.key
            /\ probe' = [probe EXCEPT !.op = "responded", !.url = req[p].url,
                                      !.result = res[p], !.acceptsHtml = x.acceptsHtml,
                                      !.by = d.by, !.status = d.status,
                                      !.reached = d.reached, !.token = d.token,
                                      !.served = @ + 1]
    /\ pc' = [pc EXCEPT ![p] = "idle"]
    /\ req' = [req EXCEPT ![p] = NoRequest]
    /\ res' = [res EXCEPT ![p] = InitResult(0)]
    /\ authorizedRoutes' = [authorizedRoutes EXCEPT ![p] = <<>>]
    /\ calls' = [calls EXCEPT ![p] = {}]
    /\ UNCHANGED <<workload, now, config, verifiedJwtCache, routeAuthCache, userCache>>

ServiceNext ==
    \/ \E p \in Procs : Arrive(p)
    \/ \E p \in Procs : KvGet(p)
    \/ \E p \in Procs : ImportKey(p)
    \/ \E p \in Procs : Verify(p)
    \/ \E p \in Procs : Respond(p)
    \/ Tick

ServiceSpec == ServiceInit /\ [][ServiceNext]_vars

-----------------------------------------------------------------------------
(* C21 *)

\* handleRequest has answered a request that neither ApiHandler nor UiHandler
\* took (both returned null: no auth API route, "Not a UI route").
C21_LeftToTheGate ==
    /\ probe.op = "responded"
    /\ probe.entry = "handleRequest"
    /\ probe.by \notin {"api", "ui"}

C21_AppReached ==
    probe.op = "responded" /\ probe.entry = "handleRequest" /\ probe.reached

C21_Refused401 ==
    C21_LeftToTheGate /\ ~probe.result.isAuthed /\ probe.status = 401

C21_BrowserRedirected ==
    /\ probe.op = "responded" /\ probe.entry = "handleRequest"
    /\ probe.by = "ui" /\ probe.status = 302
    /\ ~probe.result.isAuthed /\ probe.url = UrlPublic

-----------------------------------------------------------------------------
(* C22 *)

\* C22: a handler wrapped by createAuthHandler is reached only when the user is
\* both authenticated and authorized; the wrapper never calls the handler for a
\* result with isAuthorized = false.  Violated: createGatekeeper tests
\* request.isAuthed alone (part_012:18).
C22_HandlerOnlyWhenAuthorized ==
    (probe.op = "responded" /\ probe.entry = "createAuthHandler" /\ probe.reached)
        => (probe.result.isAuthed /\ probe.result.isAuthorized)


-----------------------------------------------------------------------------
(* C31 *)

\* The request in slot p was authenticated and then refused: the route cache or
\* the route matcher answered "not authorized" and no exception was raised.
C31_Refused(p) ==
    /\ pc[p] = "done"
    /\ res[p].isAuthed
    /\ ~res[p].isAuthorized
    /\ "fault" \notin calls[p]

\* What the authentication step of the request in slot p wrote: the cached
\* payload on a cache hit, the verified payload after full verification, the
\* header's user name and no payload after the header check.
C31_Authenticated(p) ==
    IF "cacheHit" \in calls[p]
    THEN [method |-> Some("jwt-cache"),
          username |-> Some(DecodePayload(req[p].token[1].payload).sub),
          payload |-> Some(DecodePayload(req[p].token[1].payload))]
    ELSE IF "validate" \in calls[p]
    THEN [method |-> Some("jwt"),
          username |-> Some(DecodePayload(req[p].token[1].payload).sub),
          payload |-> Some(DecodePayload(req[p].token[1].payload))]
    ELSE [method |-> Some("header"),
          username |-> Some(HeaderUsername(req[p].header[1].text)),
          payload |-> Null]

\* C31: when an authenticated request is found not authorized, the
\* authorization step changes only the error, to 'User not authorized for
\* path: <pathname>': isAuthed stays true, method, username and payload keep
\* the values the authentication step set, isAuthorized is false and
\* matchedRoute is null.
C31_RefusalKeepsIdentity ==
    \A p \in Procs :
        C31_Refused(p)
            => /\ res[p].error = ErrNotAuthorized(req[p].url.pathname)
               /\ res[p].matchedRoute = Null
               /\ res[p].method = C31_Authenticated(p).method
               /\ res[p].username = C31_Authenticated(p).username
               /\ res[p].payload = C31_Authenticated(p).payload

\* A token verified in full, a token served from the cache and a header
\* credential, each refused on a path outside the user's routes.
C31_Witness ==
    \E p \in Procs :
        /\ C31_Refused(p)
        /\ res[p].method = Some("jwt-cache")
        /\ res[p].error = ErrNotAuthorized(req[p].url.pathname)

C31_RefusedAfterVerification ==
    \E p \in Procs : C31_Refused(p) /\ res[p].method = Some("jwt")

C31_RefusedAfterHeader ==
    \E p \in Procs : C31_Refused(p) /\ res[p].method = Some("header")


-----------------------------------------------------------------------------
(* C34 *)

\* C34: in every returned result isAuthed = true exactly when method is one of
\* 'jwt', 'jwt-cache', 'header'; a result with method 'error' always has
\* isAuthed = false, also when the fault occurred in the authorization step
\* after the identity was accepted.  Violated: the outer catch sets method and
\* error and leaves isAuthed as it was (auth.mjs:318-322).
C34_MethodTellsAuthed ==
    \A p \in Procs :
        pc[p] = "done"
            => /\ res[p].isAuthed
                    <=> res[p].method \in {Some("jwt"), Some("jwt-cache"), Some("header")}
               /\ res[p].method = Some("error") => ~res[p].isAuthed


-----------------------------------------------------------------------------
(* C40 *)

\* The header of the request in slot p decoded to "name:secret" (so the
\* Credential Store was asked for the name).
C40_HeaderNamedUser(p) ==
    req[p].header # Null /\ ~HeaderMalformed(req[p].header[1])

-----------------------------------------------------------------------------
(* C37 *)

\* The entries of a cache as a set of [key, val] records.
C37_Entries(cache) == {cache[i] : i \in 1..Len(cache)}

\* In this step the request in slot p comes back from a crypto verify of a
\* token that passes full verification.
C37_VerifiedInFull(p) ==
    /\ pc[p] = "verify"
    /\ pc'[p] = "done"
    /\ TokenVerifiesAt(req[p].token[1], now)

\* The entry that a successful full verification of the token writes.
C37_EntryOf(token, t) ==
    [key |-> token,
     val |-> [payload |-> DecodePayload(token.payload), expires |-> t + config.cacheTtlMs]]

\* C37 (steps): the verification cache changes only in a step in which some
\* request's full verification of its token succeeds; after that step the
\* cache holds the entry of exactly that token with the payload verification
\* returned, and every other entry is an entry it held before.  A failed
\* verification, a header authentication and a cache hit leave it as it was.
C37_OnlyVerifiedInserted ==
    [][verifiedJwtCache' # verifiedJwtCache
        => \E p \in Procs :
              /\ C37_VerifiedInFull(p)
              /\ res'[p].payload = Some(DecodePayload(req[p].token[1].payload))
              /\ C37_EntryOf(req[p].token[1], now) \in C37_Entries(verifiedJwtCache')
              /\ C37_Entries(verifiedJwtCache')
                    \subseteq C37_Entries(verifiedJwtCache)
                              \cup {C37_EntryOf(req[p].token[1], now)}]_vars

\* C37 (states): every entry of the verification cache is keyed by a token
\* that is well formed and signed under the configured secret, and holds that
\* token's decoded payload with a routes array.
C37_EntriesVerified ==
    \A i \in 1..Len(verifiedJwtCache) :
        LET e == verifiedJwtCache[i]
        IN  /\ e.key.parts = 3
            /\ SignatureValid(e.key, config.jwtSecret)
            /\ e.val.payload = DecodePayload(e.key.payload)
            /\ IsArray(e.val.payload.routes)
            /\ e.val.expires <= now + config.cacheTtlMs

\* C37: every verification-cache entry was inserted by a request whose full
\* verification of that exact token succeeded and holds the payload that
\* verification returned; a failed verification, a header authentication and a
\* cache hit never insert or modify an entry.
C37_CacheIntegrity == C37_OnlyVerifiedInserted /\ []C37_EntriesVerified

\* An entry is in the cache while a request served from it and a request whose
\* verification failed have both returned or are returning.
C37_Witness ==
    /\ Len(verifiedJwtCache) > 0
    /\ \E p \in Procs :
          /\ pc[p] = "done"
          /\ "cacheHit" \in calls[p]
          /\ MapHas(verifiedJwtCache, req[p].token[1])
          /\ MapGet(verifiedJwtCache, req[p].token[1]).expires < now + config.cacheTtlMs

\* A failed full verification has returned while the cache holds an entry.
C37_FailedBesideEntry ==
    /\ Len(verifiedJwtCache) > 0
    /\ \E p \in Procs :
          /\ pc[p] = "done"
          /\ "verify" \in calls[p]
          /\ ~res[p].isAuthed


-----------------------------------------------------------------------------
(* C36 *)

\* C36: claim extensions supplied by the caller cannot replace registered
\* claims: the token that create returns has sub = username, routes = the
\* routes argument, iss = issuer, aud = audience and exp = iat +
\* sessionTimeout.  Violated: publicClaims and privateClaims are spread into
\* the payload after the registered claims (jwt.mjs:55-66), and handleLogin
\* passes the request body's claims straight to create (login.mjs:41-47).
C36_RegisteredClaimsKept ==
    (probe.op = "login" /\ probe.token # Null)
        => LET a == LoginCreateArgs(probe.body, config)
               payload == probe.token[1].payload
           IN  /\ payload.sub = a.username
               /\ payload.routes = Some(a.routes)
               /\ payload.iss = a.issuer
               /\ payload.aud = a.audience
               /\ payload.exp = NowSeconds(probe.at) + a.sessionTimeout


-----------------------------------------------------------------------------
(* C35 *)

\* C35: verification is bound to the secret passed in: after any earlier
\* create and validate calls, a token signed under one secret is rejected by
\* validate called with a different secret, and create signs with a key derived
\* from the secret it was given.  Violated: getCryptoKey returns the key it
\* imported first, whatever secret a later call passes (jwt.mjs:32).
C35_BoundToSecret ==
    /\ (probe.op = "validate" /\ probe.out # Null)
          => probe.token[1].sig.key = probe.args[1].jwtSecret
    /\ (probe.op = "create" /\ ~probe.threw)
          => probe.token[1].sig.key = probe.input[1].jwtSecret


-----------------------------------------------------------------------------
(* C32 *)

\* C32: for every authenticated request, the returned isAuthorized and
\* matchedRoute equal the result of matching the target against the routes of
\* the identity proven in that same request, also when the authorization cache
\* already holds an entry for the same (username, target) that was computed
\* from an identity proof with different routes.  Violated: a cached entry is
\* returned as it is, and its key names the user and the target only
\* (auth.mjs:296-301).
C32_FreshAuthorization ==
    \A p \in Procs :
        (pc[p] = "done" /\ res[p].isAuthed /\ "fault" \notin calls[p])
            => LET mr == matchRoute(req[p].url, authorizedRoutes[p])
               IN  /\ res[p].isAuthorized = mr.isAuthorized
                   /\ res[p].matchedRoute = mr.matchedRoute


\* The stale entry grants: a token whose routes do not cover the target is
\* authorized from an entry made for an earlier token of the same user.
C32_StaleGrant ==
    \E p \in Procs :
        /\ pc[p] = "done"
        /\ res[p].isAuthed
        /\ res[p].isAuthorized
        /\ "fault" \notin calls[p]
        /\ ~matchRoute(req[p].url, authorizedRoutes[p]).isAuthorized


-----------------------------------------------------------------------------
(* C33 *)

\* Two requests are the same request at the same time against the same store:
\* equal token, header and target, both stamped with the present time, and the
\* backend answered every lookup either made.  What may differ is the state of
\* the verification cache each of them met.
C33_SameRequest(p, q) ==
    /\ pc[p] = "done" /\ pc[q] = "done"
    /\ req[p] = req[q]
    /\ res[p].timestamp = now /\ res[q].timestamp = now
    /\ "kvFail" \notin calls[p] \cup calls[q]

\* C33: the decision is deterministic in the request and the store: for a
\* fixed request, store contents and time, isAuthed and username are the same
\* whether the verification cache is empty or populated; a request carrying a
\* valid header credential for one user and a valid token for another is
\* attributed to the same user in both cache states.  Violated: with the token
\* cached the cache check accepts the token's user and the header is skipped
\* (auth.mjs:235-248); without it the header check runs first and wins.
C33_CacheIndependent ==
    \A p, q \in Procs :
        C33_SameRequest(p, q)
            => /\ res[p].isAuthed = res[q].isAuthed
               /\ res[p].username = res[q].username


-----------------------------------------------------------------------------
(* C38 *)

\* Requests p and q were in flight together with the same token, neither found
\* it in the cache, and the token passes full verification.
C38_Twins(p, q) ==
    /\ p # q
    /\ pc[p] = "done" /\ pc[q] = "done"
    /\ req[p].token # Null
    /\ req[p].token = req[q].token
    /\ "verify" \in calls[p] \cap calls[q]
    /\ TokenVerifiesAt(req[p].token[1], now)

\* How many entries the cache holds under key k.
C38_EntriesFor(cache, k) == Cardinality({i \in 1..Len(cache) : cache[i].key = k})

C38_SizeBound ==
    /\ Len(verifiedJwtCache) <= config.maxCacheSize
    /\ Len(routeAuthCache) <= config.maxCacheSize

\* Every change of a cache is the capacity check, the batch eviction and the
\* insertion of one request, applied in one step to the cache as it was.
C38_InsertIsOneStep ==
    /\ verifiedJwtCache' # verifiedJwtCache
          => \E p \in Procs :
                /\ pc[p] = "verify"
                /\ verifiedJwtCache' =
                      InsertWithEviction(verifiedJwtCache, req[p].token[1],
                          [payload |-> DecodePayload(req[p].token[1].payload),
                           expires |-> now + config.cacheTtlMs], config)
    /\ routeAuthCache' # routeAuthCache
          => \E p \in Procs :
                /\ pc'[p] = "done"
                /\ res'[p].isAuthed
                /\ routeAuthCache' =
                      InsertWithEviction(routeAuthCache,
                          RouteCacheKey(res'[p].username[1], req'[p].url),
                          [isAuthorized |-> res'[p].isAuthorized,
                           matchedRoute |-> res'[p].matchedRoute], config)

-----------------------------------------------------------------------------
(* createAuthConfig (config.mjs:65-99) on the two cache settings.  An         *)
(* environment value is unset, a text that is no integer, or an integer text. *)

DefaultMaxCacheSize == 50000
DefaultCacheEvictionBatchSize == 100

EnvUnset == [set |-> FALSE, integer |-> FALSE, value |-> 0]
EnvText == [set |-> TRUE, integer |-> FALSE, value |-> 0]
EnvInt(v) == [set |-> TRUE, integer |-> TRUE, value |-> v]

\* config.mjs:55: !isNaN(parseInt(val, 10)) && Number.isInteger(Number(val));
\* no sign or range is asked for.
isInteger(val) == val.integer

\* env.KEY ? Number(requireAndValidate(env, KEY, isInteger, ...)) : default
IntegerSetting(val, default) ==
    IF ~val.set THEN [threw |-> FALSE, value |-> default]
    ELSE IF ~isInteger(val) THEN [threw |-> TRUE, value |-> default]
    ELSE [threw |-> FALSE, value |-> val.value]

createAuthConfig(env) ==
    LET max == IntegerSetting(env.MAX_CACHE_SIZE, DefaultMaxCacheSize)
        batch == IntegerSetting(env.CACHE_EVICTION_BATCH_SIZE, DefaultCacheEvictionBatchSize)
    IN  [threw |-> max.threw \/ batch.threw,
         config |-> Config(max.value, batch.value)]

Envs ==
    [MAX_CACHE_SIZE : {EnvUnset, EnvText, EnvInt(-1), EnvInt(0), EnvInt(1)},
     CACHE_EVICTION_BATCH_SIZE : {EnvUnset, EnvText, EnvInt(0), EnvInt(1)}]

\* The engine starts with any configuration that createAuthConfig returns; an
\* environment it throws on starts nothing.
LooseInit ==
    /\ \E env \in Envs :
          /\ ~createAuthConfig(env).threw
          /\ config = createAuthConfig(env).config
    /\ workload = "loose"
    /\ now = 0
    /\ verifiedJwtCache = <<>>
    /\ routeAuthCache = <<>>
    /\ userCache = [u \in {} |-> Null]
    /\ cryptoKey = Null
    /\ pc = [p \in Procs |-> "idle"]
    /\ req = [p \in Procs |-> NoRequest]
    /\ res = [p \in Procs |-> InitResult(0)]
    /\ authorizedRoutes = [p \in Procs |-> <<>>]
    /\ calls = [p \in Procs |-> {}]
    /\ probe = NoProbe

LooseConfigSpec == LooseInit /\ [][Next]_vars

-----------------------------------------------------------------------------
(* C39 *)

\* C39: the size bound holds for every configuration createAuthConfig accepts,
\* also MAX_CACHE_SIZE or CACHE_EVICTION_BATCH_SIZE of 0 or below: the caches
\* never hold more than max(maxCacheSize, 0) entries.  Violated: isInteger
\* accepts "0" and "-1", and with maxCacheSize <= 0 every insertion still
\* leaves its entry, with batch size <= 0 nothing is evicted at all.
C39_BoundForAcceptedConfig ==
    LET bound == IF config.maxCacheSize > 0 THEN config.maxCacheSize ELSE 0
    IN  /\ Len(verifiedJwtCache) <= bound
        /\ Len(routeAuthCache) <= bound

\* Reached: a cache above a positive maxCacheSize because the batch size is 0.
C39_GrowsPastPositiveBound ==
    /\ config.maxCacheSize = 1
    /\ config.cacheEvictionBatchSize = 0
    /\ Len(verifiedJwtCache) = 2

====
